---- MODULE Spec2Model ----
(***************************************************************************)
(* on-bored: a static-analysis report generator.  bin/cli.js (kept in      *)
(* src/HANDOFF.md from line 138 on) shells out to git, find and grep,      *)
(* classifies the output and hands one report object to                    *)
(* lib/generateHTML.js.                                                    *)
(*                                                                         *)
(* The module holds several specifications over one set of variables:      *)
(*   SpecRun         one whole invocation: clone, runAnalysis, runWithAI   *)
(*   SpecReport      runWithAI from the moment runAnalysis has returned    *)
(*   SpecReportFair  SpecReport with the fairness of the node event loop   *)
(*   SpecContrib     the per-contributor aggregation of runAnalysis        *)
(*   SpecRadar       the radar normalisation alone, over all count vectors *)
(*   SpecFrontend    SpecContrib over histories of frontend work           *)
(*   SpecChurn       the file-churn ranking of runAnalysis                 *)
(*   SpecDead        the dead-code detection of runAnalysis, run twice     *)
(*   SpecCompliance  the compliance indicators and the score shown         *)
(* Variables a specification does not use stay at their idle value.        *)
(***************************************************************************)
EXTENDS Integers, Sequences, FiniteSets, TLC

VARIABLES
  pc,          \* position of the invocation
  isRepo,      \* whether `git rev-parse --git-dir` succeeds in repoPath
  sec,         \* index in Sections of the next scan section of runAnalysis
  scan,        \* section name -> the outputs its section has collected
  cur,         \* outcomes of the collaborator calls of the last section
  faults,      \* collaborator calls so far that failed or returned nothing
  aiProvider,  \* value of --ai
  data,        \* the report object built by runAnalysis, Null before
  aiResponse,  \* what callAI resolved to
  files,       \* files written to outputDir by this invocation
  page,        \* index in Pages of the next page generateHTML writes
  error,       \* what made the invocation fail, "none" otherwise
  exitCode,    \* -1 while running, else the process exit code
  \* ---- per-contributor aggregation (runAnalysis 401-505)
  cpc,                \* position in the aggregation of one contributor
  history,            \* lines `git log --author --oneline --name-only` prints
  commitData,         \* the lines the forEach walks
  idx,                \* index in commitData of the next line
  currentCommitMsg,
  filesTouched,       \* extension -> count, as entries in insertion order
  areasTouched,       \* directory name -> count, as entries in insertion order
  categoryBreakdown,  \* category -> count
  contributor,        \* the derived fields of the returned object
  \* ---- file churn (runAnalysis 531-543)
  churnPc,            \* position in the churn section
  churnOutput,        \* lines `git log --name-only --diff-filter=M` prints
  fileChurnRaw,       \* the lines of what git() returned
  churnIdx,           \* index in fileChurnRaw of the next line
  fileChurnMap,       \* path -> count, as entries in insertion order
  topFiles,           \* the ranked list
  \* ---- dead-code detection (runAnalysis 935-1070)
  deadPc,             \* position in the dead-code section
  pass,               \* 1 in the first analysis of the tree, 2 in the next
  componentFiles,     \* the listing of component files
  allUsages,          \* the index of import and tag lines
  tsFiles,            \* the listing of files looked at for exports
  contents,           \* file -> whether it can be read, and its exports
  allImports,         \* the index of import lines
  srcFiles,           \* the listing of source files
  allRefs,            \* the index of import and require lines
  unusedComponents,   \* the arrays the three sub-scans push to
  unusedExports,
  orphaned,
  deadCode,           \* the three lists of the report
  lastDeadCode,       \* deadCode as the analysis before this one left it
  \* ---- compliance indicators (runAnalysis 1143-1223, security.html)
  repoPath,           \* where the analysed tree is
  checkout,           \* 1 for the first location of the tree, 2 for the next
  lastCompliance,     \* compliance as the analysis at the first location left it
  threw,              \* whether a compliance pipeline has thrown (catch at 1218)
  compPc,             \* position in the compliance section
  complianceOutput,   \* lines the grep pipeline prints
  complianceFiles,    \* files: the lines kept
  compIdx,            \* index in complianceFiles of the next file
  compliance,         \* category -> found, files, notes
  passedChecks,       \* generateSecurityCompliance: categories found
  complianceScore,    \* generateSecurityCompliance: the score shown
  \* ---- exposed sensitive files (runAnalysis 1126-1141)
  expPc,              \* position in the exposure check
  expIdx,             \* index in sensitiveFiles of the next name
  worktree,           \* the files of the tree, in the order find prints them
  ignoredPaths,       \* the paths git check-ignore reports as ignored
  security,           \* vulnerabilities and warnings
  \* ---- monthly breakdown (runAnalysis 507-529)
  monPc,              \* position in the monthly breakdown
  monI,               \* i of the for loop
  today,              \* the day of the analysis
  months,             \* the buckets pushed so far
  \* ---- the viewer (server.js)
  requests,           \* request -> its URL, its position in the handler, its filePath
  responses,          \* request -> the responses written to it
  disk,               \* path -> a file with its content, or a directory
  \* ---- watch mode (bin/cli.js 1444-1481)
  alive,              \* whether the process is running
  endedBy,            \* the run that ended the process, 0 for none
  targetIsRepo,       \* whether the analysed directory is a git repository
  aiEnabled,          \* whether an AI provider was named
  watchRuns,          \* run -> whether a refresh, and how far it is
  outputFiles,        \* the run that wrote data.json, the run that wrote the pages
  logged              \* the runs whose failure was logged as a refresh error

runVars == <<pc, isRepo, sec, scan, cur, faults, aiProvider, data, aiResponse,
             files, page, error, exitCode>>

contribVars == <<cpc, history, commitData, idx, currentCommitMsg, filesTouched,
                 areasTouched, categoryBreakdown, contributor>>

churnVars == <<churnPc, churnOutput, fileChurnRaw, churnIdx, fileChurnMap, topFiles>>

deadVars == <<deadPc, pass, componentFiles, allUsages, tsFiles, contents, allImports,
              srcFiles, allRefs, unusedComponents, unusedExports, orphaned, deadCode,
              lastDeadCode>>

compVars == <<repoPath, checkout, lastCompliance, threw, compPc, complianceOutput,
              complianceFiles, compIdx, compliance, passedChecks, complianceScore>>

expVars == <<expPc, expIdx, worktree, ignoredPaths, security>>

monVars == <<monPc, monI, today, months>>

serverVars == <<requests, responses, disk>>

watchVars == <<alive, endedBy, targetIsRepo, aiEnabled, watchRuns,
               outputFiles, logged>>

vars == <<runVars, contribVars, churnVars, deadVars, compVars, expVars,
          monVars, serverVars, watchVars>>

\* what the steps of one part leave alone
exceptRun == <<contribVars, churnVars, deadVars, compVars, expVars, monVars,
               serverVars, watchVars>>

exceptContrib == <<runVars, churnVars, deadVars, compVars, expVars, monVars,
                   serverVars, watchVars>>

exceptChurn == <<runVars, contribVars, deadVars, compVars, expVars, monVars,
                 serverVars, watchVars>>

exceptDead == <<runVars, contribVars, churnVars, compVars, expVars, monVars,
                serverVars, watchVars>>

exceptComp == <<runVars, contribVars, churnVars, deadVars, expVars, monVars,
                serverVars, watchVars>>

exceptExposure == <<runVars, contribVars, churnVars, deadVars, compVars,
                    monVars, serverVars, watchVars>>

exceptMonths == <<runVars, contribVars, churnVars, deadVars, compVars,
                  expVars, serverVars, watchVars>>

exceptServer == <<runVars, contribVars, churnVars, deadVars, compVars,
                  expVars, monVars, watchVars>>

exceptWatch == <<runVars, contribVars, churnVars, deadVars, compVars,
                 expVars, monVars, serverVars>>

Null == "null"

(***************************************************************************)
(* Bounds                                                                  *)
(***************************************************************************)
\* collaborator calls of one run that fail or return empty output
MaxFaults == 2

\* lines of one contributor's history
MaxLines == 3
\* largest count of one category in SpecRadar
MaxCount == 3
\* refreshes of one watch
MaxTicks == 3

(***************************************************************************)
(* JavaScript strings.  A string is a TLA+ string; positions count from 1. *)
(***************************************************************************)
CharAt(s, i) == SubSeq(s, i, i)

\* String.prototype.includes
Includes(s, p) ==
  \E i \in 0..(Len(s) - Len(p)) : SubSeq(s, i + 1, i + Len(p)) = p

StartsWith(s, p) == Len(p) <= Len(s) /\ SubSeq(s, 1, Len(p)) = p

EndsWith(s, p) == Len(p) <= Len(s) /\ SubSeq(s, Len(s) - Len(p) + 1, Len(s)) = p

LowerChar(c) ==
  CASE c = "A" -> "a" [] c = "B" -> "b" [] c = "C" -> "c" [] c = "D" -> "d"
    [] c = "E" -> "e" [] c = "F" -> "f" [] c = "G" -> "g" [] c = "H" -> "h"
    [] c = "I" -> "i" [] c = "J" -> "j" [] c = "K" -> "k" [] c = "L" -> "l"
    [] c = "M" -> "m" [] c = "N" -> "n" [] c = "O" -> "o" [] c = "P" -> "p"
    [] c = "Q" -> "q" [] c = "R" -> "r" [] c = "S" -> "s" [] c = "T" -> "t"
    [] c = "U" -> "u" [] c = "V" -> "v" [] c = "W" -> "w" [] c = "X" -> "x"
    [] c = "Y" -> "y" [] c = "Z" -> "z" [] OTHER -> c

\* String.prototype.toLowerCase
RECURSIVE ToLowerCase(_)
ToLowerCase(s) ==
  IF s = "" THEN "" ELSE LowerChar(Head(s)) \o ToLowerCase(Tail(s))

IsSpace(c) == c \in {" ", "\t"}

\* String.prototype.trim
RECURSIVE TrimStart(_)
TrimStart(s) == IF s # "" /\ IsSpace(Head(s)) THEN TrimStart(Tail(s)) ELSE s

RECURSIVE TrimEnd(_)
TrimEnd(s) ==
  IF s # "" /\ IsSpace(CharAt(s, Len(s)))
    THEN TrimEnd(SubSeq(s, 1, Len(s) - 1)) ELSE s

Trim(s) == TrimEnd(TrimStart(s))

\* position of the first (last) occurrence of the character c in s, 0 if none
IndexOf(s, c) ==
  IF \E i \in 1..Len(s) : CharAt(s, i) = c
    THEN CHOOSE i \in 1..Len(s) :
           CharAt(s, i) = c /\ \A j \in 1..(i - 1) : CharAt(s, j) # c
    ELSE 0

LastIndexOf(s, c) ==
  IF \E i \in 1..Len(s) : CharAt(s, i) = c
    THEN CHOOSE i \in 1..Len(s) :
           CharAt(s, i) = c /\ \A j \in (i + 1)..Len(s) : CharAt(s, j) # c
    ELSE 0

\* String.prototype.split on a one-character separator
RECURSIVE Split(_, _)
Split(s, c) ==
  LET i == IndexOf(s, c)
  IN  IF i = 0 THEN <<s>>
      ELSE <<SubSeq(s, 1, i - 1)>> \o Split(SubSeq(s, i + 1, Len(s)), c)

\* path.basename and path.extname (posix) of a path with no trailing slash
BaseName(f) == SubSeq(f, LastIndexOf(f, "/") + 1, Len(f))

ExtName(f) ==
  LET b == BaseName(f)
      d == LastIndexOf(b, ".")
  IN  IF d <= 1 THEN "" ELSE SubSeq(b, d, Len(b))

HexChars == {"a", "b", "c", "d", "e", "f",
             "0", "1", "2", "3", "4", "5", "6", "7", "8", "9"}

\* 416: line.match(/^[a-f0-9]+\s/)
IsCommitLine(line) ==
  \E k \in 1..(Len(line) - 1) :
    /\ \A i \in 1..k : CharAt(line, i) \in HexChars
    /\ IsSpace(CharAt(line, k + 1))

(***************************************************************************)
(* Contributor aggregation, runAnalysis 389-505                            *)
(***************************************************************************)
Cats == <<"frontend", "backend", "database", "auth", "devops", "testing", "docs">>

CatSet == { Cats[i] : i \in 1..Len(Cats) }

\* 390-398
commitCategories ==
  [frontend |-> {"component", "ui", "style", "css", "layout", "modal", "button",
                 "form", "page"},
   backend  |-> {"api", "server", "handler", "controller", "route", "endpoint",
                 "service"},
   database |-> {"database", "db", "schema", "model", "migration", "query",
                 "prisma"},
   auth     |-> {"auth", "login", "signup", "session", "jwt", "oauth", "password",
                 "security"},
   devops   |-> {"ci", "cd", "docker", "deploy", "build", "workflow", "pipeline",
                 "config"},
   testing  |-> {"test", "spec", "jest", "vitest", "cypress", "e2e"},
   docs     |-> {"doc", "readme", "changelog", "comment", "md"}]

\* 421-425: the categories a commit line counts for
MsgCats(msg) ==
  { c \in CatSet : \E p \in commitCategories[c] : Includes(msg, p) }

\* 437-457: the categories a changed-file line counts for
FileCats(file) ==
  LET ext == ToLowerCase(ExtName(file)) IN
  { c \in CatSet :
      \/ c = "frontend" /\ (\/ Includes(file, "component")
                            \/ Includes(file, "/ui/")
                            \/ ext \in {".vue", ".tsx", ".jsx", ".svelte", ".css", ".scss"})
      \/ c = "backend" /\ (\/ Includes(file, "/api/") \/ Includes(file, "server")
                           \/ Includes(file, "handler"))
      \/ c = "database" /\ (\/ Includes(file, "schema") \/ Includes(file, "model")
                            \/ Includes(file, "migration") \/ Includes(file, "prisma"))
      \/ c = "auth" /\ (\/ Includes(file, "auth") \/ Includes(file, "login")
                        \/ Includes(file, "security"))
      \/ c = "devops" /\ (\/ Includes(file, "docker") \/ Includes(file, "ci")
                          \/ Includes(file, "workflow") \/ ext \in {".yml", ".yaml"})
      \/ c = "testing" /\ (\/ Includes(file, "test") \/ Includes(file, "spec")
                           \/ Includes(file, ".test.") \/ Includes(file, ".spec."))
      \/ c = "docs" /\ (\/ ext \in {".md", ".mdx", ".txt"} \/ Includes(file, "readme")
                        \/ Includes(file, "doc")) }

ZeroCounts == [c \in CatSet |-> 0]

\* a faulty variant: only the first matching category of the list is counted
BumpFirstOnly(cb, cats) ==
  [c \in CatSet |->
     cb[c] + IF c \in cats /\ \A i \in 1..Len(Cats) :
                                 (Cats[i] \in cats /\ Cats[i] # c) =>
                                    \E j \in 1..(i - 1) : Cats[j] = c
               THEN 1 ELSE 0]

\* 431-457: categoryBreakdown[cat]++ for every category of the set
Bump(cb, cats) == [c \in CatSet |-> cb[c] + IF c \in cats THEN 1 ELSE 0]

\* a faulty variant: a key is recorded, its occurrences are not added up
TouchOnce(obj, key) ==
  IF \E i \in 1..Len(obj) : obj[i].key = key THEN obj
  ELSE Append(obj, [key |-> key, n |-> 1])

\* obj[key] = (obj[key] || 0) + 1 on an object kept as its entries in insertion order
Touch(obj, key) ==
  IF \E i \in 1..Len(obj) : obj[i].key = key
    THEN [i \in 1..Len(obj) |->
            IF obj[i].key = key THEN [key |-> key, n |-> obj[i].n + 1] ELSE obj[i]]
    ELSE Append(obj, [key |-> key, n |-> 1])

Get(obj, key) ==
  IF \E i \in 1..Len(obj) : obj[i].key = key
    THEN (CHOOSE e \in { obj[i] : i \in 1..Len(obj) } : e.key = key).n
    ELSE 0

\* 460-466: the first path segment that is no stoplisted name and longer than 1
AreaOf(line) ==
  LET parts == Split(line, "/")
      ok(q) == q \notin {"src", "app", "lib", "."} /\ Len(q) > 1
  IN  IF Len(parts) > 1 /\ \E i \in 1..Len(parts) : ok(parts[i])
        THEN parts[CHOOSE i \in 1..Len(parts) :
                     ok(parts[i]) /\ \A j \in 1..(i - 1) : ~ok(parts[j])]
        ELSE ""

Digits == {"0", "1", "2", "3", "4", "5", "6", "7", "8", "9"}

\* a property name that is an array index: Object.entries lists those first,
\* in ascending numeric order, then the other names in insertion order
IsIndexKey(k) ==
  /\ k # ""
  /\ Len(k) <= 9
  /\ \A i \in 1..Len(k) : CharAt(k, i) \in Digits
  /\ (Len(k) > 1 => Head(k) # "0")

DigitVal(c) ==
  CASE c = "0" -> 0 [] c = "1" -> 1 [] c = "2" -> 2 [] c = "3" -> 3 [] c = "4" -> 4
    [] c = "5" -> 5 [] c = "6" -> 6 [] c = "7" -> 7 [] c = "8" -> 8 [] OTHER -> 9

RECURSIVE NumVal(_)
NumVal(k) ==
  IF k = "" THEN 0
  ELSE 10 * NumVal(SubSeq(k, 1, Len(k) - 1)) + DigitVal(CharAt(k, Len(k)))

RECURSIVE AscendingByKey(_)
AscendingByKey(es) ==
  IF es = {} THEN <<>>
  ELSE LET e == CHOOSE x \in es : \A y \in es : NumVal(x.key) <= NumVal(y.key)
       IN  <<e>> \o AscendingByKey(es \ {e})

\* Object.entries
Entries(obj) ==
  AscendingByKey({ obj[i] : i \in { j \in 1..Len(obj) : IsIndexKey(obj[j].key) } })
    \o SelectSeq(obj, LAMBDA e : ~IsIndexKey(e.key))

\* Array.prototype.sort((a, b) => b[1] - a[1]): stable, descending by count
RECURSIVE SortDesc(_)
SortDesc(es) ==
  IF es = <<>> THEN <<>>
  ELSE LET rest == SortDesc(SubSeq(es, 1, Len(es) - 1))
           e    == es[Len(es)]
           k    == Cardinality({ i \in 1..Len(rest) : rest[i].n >= e.n })
       IN  SubSeq(rest, 1, k) \o <<e>> \o SubSeq(rest, k + 1, Len(rest))

\* a faulty variant: the entries are left in the order of Object.entries
ExtCountsUnsorted(ft) == Entries(ft)

\* 479: extCounts
ExtCounts(ft) == SortDesc(Entries(ft))

Keys(es) == [i \in 1..Len(es) |-> es[i].key]

Slice(s, n) == SubSeq(s, 1, IF Len(s) < n THEN Len(s) ELSE n)

\* 473-476: topAreas
TopAreas(at) == Keys(Slice(SortDesc(Entries(at)), 3))

\* 480-488: the focus label from the most-touched extension
Focus(ft) ==
  LET ec == ExtCounts(ft) IN
  IF ec = <<>> THEN "general"
  ELSE LET topExt == ec[1].key IN
    IF topExt \in {".vue", ".tsx", ".jsx", ".svelte", ".css", ".scss"} THEN "frontend"
    ELSE IF topExt \in {".py", ".go", ".rs", ".java"} THEN "backend"
    ELSE IF topExt \in {".ts", ".js"}
      THEN (IF Get(ft, ".vue") > 0 \/ Get(ft, ".tsx") > 0 THEN "frontend" ELSE "fullstack")
    ELSE IF topExt \in {".md", ".mdx", ".txt"} THEN "docs"
    ELSE IF topExt \in {".yml", ".yaml", ".json"} THEN "config/devops"
    ELSE "general"

RECURSIVE SumOver(_, _)
SumOver(f, S) ==
  IF S = {} THEN 0
  ELSE LET x == CHOOSE y \in S : TRUE IN f[x] + SumOver(f, S \ {x})

\* 2^k modulo t, by repeated doubling
RECURSIVE Pow2Mod(_, _)
Pow2Mod(k, t) == IF k = 0 THEN 1 % t ELSE (2 * Pow2Mod(k - 1, t)) % t

\* 494: Math.round((count / total) * 100) as IEEE-754 doubles compute it, for
\* 0 <= count <= total and 0 < total < 4096.  The quotient and the product are
\* each rounded to 53 bits, so the product is off the exact percentage by less
\* than 2^-45; a percentage that is no exact half lies at least 1/(2 * total)
\* from one and rounds as the exact value does.  At an exact half h the product
\* is h or a neighbour of h: with m the 53-bit quotient, m * total =
\* count * 2^k + rho, the product before its rounding is
\* h + 100 * rho / (total * 2^k), and it rounds below h when that is more than
\* half a spacing under h (h has an even mantissa and wins a tie).  Math.round
\* takes a half up and anything under it down.
MathRound(count, total) ==
  LET halfUp == (200 * count + total) \div (2 * total) IN
  IF count = 0 \/ (200 * count) % (2 * total) # total THEN halfUp
  ELSE LET n   == CHOOSE i \in 0..12 :
                    count * 2^i >= total /\ (i = 0 \/ count * 2^(i - 1) < total)
           rem == (count * Pow2Mod(52 + n, total)) % total
           rho == IF 2 * rem < total THEN 0 - rem ELSE total - rem
           h2  == 2 * halfUp - 1
           j   == CHOOSE i \in (-1)..6 :
                    2^(i + 2) > h2 /\ (i = -1 \/ 2^(i + 1) <= h2)
           e   == n + j - 1 - (IF h2 = 1 THEN 1 ELSE 0)
       IN  IF (0 - 100) * rho > total * 2^e THEN halfUp - 1 ELSE halfUp

\* a faulty variant: the largest count in place of the sum
TotalByMax(cb) ==
  LET m == CHOOSE x \in { cb[c] : c \in CatSet } : \A c \in CatSet : cb[c] <= x
  IN  IF m = 0 THEN 1 ELSE m

\* a faulty variant: one more than the sum
TotalPlusOne(cb) == SumOver(cb, CatSet) + 1

\* 491: Object.values(categoryBreakdown).reduce(...) || 1
TotalCatHits(cb) ==
  LET t == SumOver(cb, CatSet) IN IF t = 0 THEN 1 ELSE t

\* faulty variants: the percentage cut off, and a floor of 5 under each value
RadarFloor(cb) == [c \in CatSet |-> (100 * cb[c]) \div TotalCatHits(cb)]

RadarMinRadius(cb) ==
  [c \in CatSet |->
     LET r == MathRound(cb[c], TotalCatHits(cb)) IN IF r < 5 THEN 5 ELSE r]

\* 492-495
RadarData(cb) == [c \in CatSet |-> MathRound(cb[c], TotalCatHits(cb))]

\* 412: `| head -500`
HeadLimit == 500

\* 357, 412: git() trims the output; the lines are split and blank ones dropped
OutputLines(h) ==
  LET ls == SelectSeq(Slice(h, HeadLimit), LAMBDA l : Trim(l) # "")
  IN  [i \in 1..Len(ls) |->
         LET a == IF i = 1 THEN TrimStart(ls[i]) ELSE ls[i]
         IN  IF i = Len(ls) THEN TrimEnd(a) ELSE a]

NoContributor ==
  [focus |-> "", topAreas |-> <<>>, expertise |-> "",
   categoryBreakdown |-> ZeroCounts, radarData |-> ZeroCounts]

\* 497-504: the fields derived for the returned object
Derived(ft, at, cb) ==
  LET top == TopAreas(at)
      fo  == Focus(ft)
  IN  [focus |-> fo, topAreas |-> Slice(top, 2),
       expertise |-> IF top # <<>> THEN top[1] ELSE fo,
       categoryBreakdown |-> cb, radarData |-> RadarData(cb)]

\* 412: the history is read; a failing git gives '' and so no line at all
ReadHistory ==
  /\ cpc = "start"
  /\ \/ commitData' = OutputLines(history)
     \/ commitData' = <<>>
  /\ idx' = 1
  /\ cpc' = "loop"
  /\ UNCHANGED <<history, currentCommitMsg, filesTouched, areasTouched,
                 categoryBreakdown, contributor>>
  /\ UNCHANGED exceptContrib

\* 415-468: one turn of commitData.forEach
ProcessLine ==
  /\ cpc = "loop"
  /\ idx <= Len(commitData)
  /\ LET line == commitData[idx] IN
     IF IsCommitLine(line)
       THEN /\ currentCommitMsg' = ToLowerCase(line)
            /\ categoryBreakdown' = Bump(categoryBreakdown, MsgCats(ToLowerCase(line)))
            /\ UNCHANGED <<filesTouched, areasTouched>>
       ELSE LET file == ToLowerCase(line)
                ext  == ToLowerCase(ExtName(file))
                area == AreaOf(line)
            IN  /\ filesTouched' = IF ext # "" THEN Touch(filesTouched, ext)
                                   ELSE filesTouched
                /\ categoryBreakdown' = Bump(categoryBreakdown, FileCats(file))
                /\ areasTouched' = IF area # "" THEN Touch(areasTouched, area)
                                   ELSE areasTouched
                /\ UNCHANGED currentCommitMsg
  /\ idx' = idx + 1
  /\ UNCHANGED <<cpc, history, commitData, contributor>>
  /\ UNCHANGED exceptContrib

\* 468: the forEach is over
EndLoop ==
  /\ cpc = "loop"
  /\ idx > Len(commitData)
  /\ cpc' = "derive"
  /\ UNCHANGED <<history, commitData, idx, currentCommitMsg, filesTouched,
                 areasTouched, categoryBreakdown, contributor>>
  /\ UNCHANGED exceptContrib

\* 472-504: topAreas, focus, radarData and the returned object
Derive ==
  /\ cpc = "derive"
  /\ contributor' = Derived(filesTouched, areasTouched, categoryBreakdown)
  /\ cpc' = "done"
  /\ UNCHANGED <<history, commitData, idx, currentCommitMsg, filesTouched,
                 areasTouched, categoryBreakdown>>
  /\ UNCHANGED exceptContrib

ContribIdle ==
  /\ cpc = "idle"
  /\ history = <<>>
  /\ commitData = <<>>
  /\ idx = 1
  /\ currentCommitMsg = ""
  /\ filesTouched = <<>>
  /\ areasTouched = <<>>
  /\ categoryBreakdown = ZeroCounts
  /\ contributor = NoContributor

\* lines `git log --author=... --oneline --name-only` can print
LinePool ==
  { "a1b2c3 add login form",
    "cd01db2 fix typo",
    "src/components/Button.vue",
    "server/api/users.ts",
    "docs/guide.md",
    "lib/util.py",
    "README",
    ".github/workflows/ci.yml",
    "index.js",
    "assets/logo.png",
    "2024/notes.txt",
    "  " }

RECURSIVE SeqsUpTo(_, _)
SeqsUpTo(S, n) ==
  IF n = 0 THEN {<<>>}
  ELSE LET shorter == SeqsUpTo(S, n - 1)
       IN  shorter \cup { Append(q, x) : q \in { r \in shorter : Len(r) = n - 1 }, x \in S }


(***************************************************************************)
(* File churn: runAnalysis 531-543                                         *)
(***************************************************************************)
\* 536: the source extensions a path has to end in
ChurnExts == {".js", ".ts", ".tsx", ".vue", ".py", ".go", ".rs", ".java"}

Counted(file) == Trim(file) # "" /\ \E e \in ChurnExts : EndsWith(file, e)

\* 357, 535: git() trims its whole output, and split('\n') keeps every line of
\* the rest, the blank ones too; '' splits into one empty line
TrimmedLines(out) ==
  LET nb == { i \in 1..Len(out) : Trim(out[i]) # "" } IN
  IF nb = {} THEN <<"">>
  ELSE LET lo == CHOOSE i \in nb : \A j \in nb : i <= j
           hi == CHOOSE i \in nb : \A j \in nb : j <= i
           ls == SubSeq(out, lo, hi)
       IN  [i \in 1..Len(ls) |->
              LET a == IF i = 1 THEN TrimStart(ls[i]) ELSE ls[i]
              IN  IF i = Len(ls) THEN TrimEnd(a) ELSE a]

\* 542: slice(0, 15)
TopN == 15

ChurnEntry(e) == [file |-> BaseName(e.key), fullPath |-> e.key, changes |-> e.n]

\* a faulty variant: the entries are cut and mapped without the sort
TopFilesUnsorted(map) ==
  LET es == Slice(Entries(map), TopN) IN [i \in 1..Len(es) |-> ChurnEntry(es[i])]

\* 540-543: topFiles
TopFiles(map) ==
  LET es == Slice(SortDesc(Entries(map)), TopN)
  IN  [i \in 1..Len(es) |-> ChurnEntry(es[i])]

\* 533: the log is read; a failing git gives ''
ChurnRead ==
  /\ churnPc = "start"
  /\ \/ fileChurnRaw' = TrimmedLines(churnOutput)
     \/ fileChurnRaw' = <<"">>
  /\ churnIdx' = 1
  /\ churnPc' = "loop"
  /\ UNCHANGED <<churnOutput, fileChurnMap, topFiles>>
  /\ UNCHANGED exceptChurn

\* 535-539: one turn of the forEach
ChurnLine ==
  /\ churnPc = "loop"
  /\ churnIdx <= Len(fileChurnRaw)
  /\ LET file == fileChurnRaw[churnIdx] IN
     fileChurnMap' = IF Counted(file) THEN Touch(fileChurnMap, file)
                     ELSE fileChurnMap
  /\ churnIdx' = churnIdx + 1
  /\ UNCHANGED <<churnPc, churnOutput, fileChurnRaw, topFiles>>
  /\ UNCHANGED exceptChurn

\* 540-543: the ranking
ChurnRank ==
  /\ churnPc = "loop"
  /\ churnIdx > Len(fileChurnRaw)
  /\ topFiles' = TopFiles(fileChurnMap)
  /\ churnPc' = "done"
  /\ UNCHANGED <<churnOutput, fileChurnRaw, churnIdx, fileChurnMap>>
  /\ UNCHANGED exceptChurn

ChurnIdle ==
  /\ churnPc = "idle"
  /\ churnOutput = <<>>
  /\ fileChurnRaw = <<>>
  /\ churnIdx = 1
  /\ fileChurnMap = <<>>
  /\ topFiles = <<>>

\* sixteen files modified once each: one more than the list holds
ManyFiles ==
  << "f01.js", "f02.js", "f03.js", "f04.js", "f05.js", "f06.js", "f07.js", "f08.js",
     "f09.js", "f10.js", "f11.js", "f12.js", "f13.js", "f14.js", "f15.js", "f16.js" >>

ChurnPool == { "a.js", "lib/b.js", "f16.js", "docs/notes.md", "" }

\* a few events alone, or before or after the sixteen
ChurnStreams ==
  LET few == SeqsUpTo(ChurnPool, MaxLines)
  IN  few \cup { ManyFiles \o s : s \in few } \cup { s \o ManyFiles : s \in few }

(***************************************************************************)
(* Dead-code detection: runAnalysis 935-1070.  A listing is what the find  *)
(* pipeline printed, an index the text the grep pipeline printed ('' when  *)
(* it failed), and a file's exports the names captured by                  *)
(* /export\s+(const|function|class)\s+(\w+)/g in order of appearance.      *)
(***************************************************************************)
\* 163: the repository is the current directory unless named
RepoPath == "."

\* path.relative(repoPath, f) for a path that find printed under repoPath
RelativeTo(root, f) ==
  IF StartsWith(f, root \o "/") THEN SubSeq(f, Len(root) + 2, Len(f)) ELSE f

Relative(f) == RelativeTo(RepoPath, f)

\* path.basename(f, path.extname(f))
StripExt(f) ==
  LET b == BaseName(f)
      e == ExtName(f)
  IN  IF e # "" THEN SubSeq(b, 1, Len(b) - Len(e)) ELSE b

\* replace(/([A-Z])/g, '-$1')
RECURSIVE Dashed(_)
Dashed(s) ==
  IF s = "" THEN ""
  ELSE (IF LowerChar(CharAt(s, 1)) # CharAt(s, 1) THEN "-" ELSE "")
         \o CharAt(s, 1) \o Dashed(SubSeq(s, 2, Len(s)))

\* 970: kebabName
KebabName(componentName) ==
  LET d == ToLowerCase(Dashed(componentName))
  IN  IF StartsWith(d, "-") THEN SubSeq(d, 2, Len(d)) ELSE d

\* 980, 1032, 1069: the lengths the three lists are cut to
ComponentsKept == 25

ExportsKept == 20

FilesKept == 20

\* 1004, 1016: the files read for exports, and the exports taken of a file
FilesRead == 30

ExportsTaken == 5

\* a faulty variant: the array is the one of the analysis before
StaleArray(old) == old

\* 958, 993, 1054: a new empty array, whatever the name held before
NewArray(old) == <<>>

Map(q, F(_)) == [i \in 1..Len(q) |-> F(q[i])]

\* 964-967: index files, pages and layouts are no candidates
ComponentSkipped(f) ==
  \/ ToLowerCase(StripExt(f)) = "index"
  \/ Includes(Relative(f), "/pages/")
  \/ Includes(Relative(f), "/layouts/")

\* a faulty variant: the kebab-case name is not looked for
UnusedComponentsNameOnly(listing, usages) ==
  LET unused(f) == ~ComponentSkipped(f) /\ ~Includes(usages, StripExt(f))
      finding(f) ==
        [path |-> Relative(f), file |-> BaseName(f), component |-> StripExt(f)]
  IN  Map(SelectSeq(listing, unused), finding)

\* 958-979: the components that are pushed
UnusedComponents(listing, usages) ==
  LET unused(f) == /\ ~ComponentSkipped(f)
                   /\ ~Includes(usages, StripExt(f))
                   /\ ~Includes(usages, KebabName(StripExt(f)))
      finding(f) ==
        [path |-> Relative(f), file |-> BaseName(f), component |-> StripExt(f)]
  IN  Map(SelectSeq(listing, unused), finding)

\* 1010: the modules whose exports are not looked at
ExportEntryPoints ==
  {"index", "main", "app", "server", "cli", "config", "env", "types", "constants"}

\* 1020-1021: composables and short names are no candidates
ExportSkipped(exportName) == StartsWith(exportName, "use") \/ Len(exportName) < 4

\* a faulty variant: only the first export of a file is looked at
FileExportsFirstOnly(f, content, imports) ==
  LET unused(x) == /\ ~ExportSkipped(x)
                   /\ ~Includes(imports, x)
                   /\ ~Includes(imports, StripExt(f))
      finding(x) == [path |-> Relative(f), file |-> BaseName(f), export |-> x]
  IN  IF ToLowerCase(StripExt(f)) \in ExportEntryPoints \/ ~content.readable THEN <<>>
      ELSE Map(SelectSeq(Slice(content.exports, 1), unused), finding)

\* 1010-1029: the exports of one file that are pushed
FileExports(f, content, imports) ==
  LET unused(x) == /\ ~ExportSkipped(x)
                   /\ ~Includes(imports, x)
                   /\ ~Includes(imports, StripExt(f))
      finding(x) == [path |-> Relative(f), file |-> BaseName(f), export |-> x]
  IN  IF ToLowerCase(StripExt(f)) \in ExportEntryPoints \/ ~content.readable THEN <<>>
      ELSE Map(SelectSeq(Slice(content.exports, ExportsTaken), unused), finding)

\* 1004-1030: the forEach over the files read
RECURSIVE UnusedExports(_, _, _)
UnusedExports(listing, cont, imports) ==
  IF listing = <<>> THEN <<>>
  ELSE FileExports(Head(listing), cont[Head(listing)], imports)
         \o UnusedExports(Tail(listing), cont, imports)

\* 1061-1062: the modules that are no orphans whatever the index says
OrphanEntryPoints ==
  {"index", "main", "app", "server", "env", "config", "types", "utils"}

OrphanSkipped(f) ==
  ToLowerCase(StripExt(f)) \in OrphanEntryPoints \/ StartsWith(StripExt(f), "_")

\* 1055-1068: the files that are pushed
Orphaned(listing, refs) ==
  LET unused(f) == ~OrphanSkipped(f) /\ ~Includes(refs, StripExt(f))
      finding(f) == [path |-> Relative(f), file |-> BaseName(f)]
  IN  Map(SelectSeq(listing, unused), finding)

NoDeadCode == [unusedComponents |-> <<>>, unusedFiles |-> <<>>, unusedExports |-> <<>>]

\* 937: let deadCode = { ... }
StartDeadCode ==
  /\ deadPc = "start"
  /\ deadCode' = NoDeadCode
  /\ deadPc' = "components"
  /\ UNCHANGED <<pass, componentFiles, allUsages, tsFiles, contents, allImports,
                 srcFiles, allRefs, unusedComponents, unusedExports, orphaned,
                 lastDeadCode>>
  /\ UNCHANGED exceptDead

\* 940-981
ScanComponents ==
  /\ deadPc = "components"
  /\ unusedComponents' =
       NewArray(unusedComponents) \o UnusedComponents(componentFiles, allUsages)
  /\ deadCode' =
       [deadCode EXCEPT !.unusedComponents = Slice(unusedComponents', ComponentsKept)]
  /\ deadPc' = "exports"
  /\ UNCHANGED <<pass, componentFiles, allUsages, tsFiles, contents, allImports,
                 srcFiles, allRefs, unusedExports, orphaned, lastDeadCode>>
  /\ UNCHANGED exceptDead

\* 983-1033
ScanExports ==
  /\ deadPc = "exports"
  /\ unusedExports' =
       NewArray(unusedExports)
         \o UnusedExports(Slice(tsFiles, FilesRead), contents, allImports)
  /\ deadCode' = [deadCode EXCEPT !.unusedExports = Slice(unusedExports', ExportsKept)]
  /\ deadPc' = "orphaned"
  /\ UNCHANGED <<pass, componentFiles, allUsages, tsFiles, contents, allImports,
                 srcFiles, allRefs, unusedComponents, orphaned, lastDeadCode>>
  /\ UNCHANGED exceptDead

\* 1036-1070
ScanOrphaned ==
  /\ deadPc = "orphaned"
  /\ orphaned' = NewArray(orphaned) \o Orphaned(srcFiles, allRefs)
  /\ deadCode' = [deadCode EXCEPT !.unusedFiles = Slice(orphaned', FilesKept)]
  /\ deadPc' = "done"
  /\ UNCHANGED <<pass, componentFiles, allUsages, tsFiles, contents, allImports,
                 srcFiles, allRefs, unusedComponents, unusedExports, lastDeadCode>>
  /\ UNCHANGED exceptDead

\* 1474: the analysis is run again, in watch mode or by hand, on the same tree
ScanAgain ==
  /\ deadPc = "done"
  /\ pass = 1
  /\ pass' = 2
  /\ lastDeadCode' = deadCode
  /\ deadPc' = "start"
  /\ UNCHANGED <<componentFiles, allUsages, tsFiles, contents, allImports, srcFiles,
                 allRefs, unusedComponents, unusedExports, orphaned, deadCode>>
  /\ UNCHANGED exceptDead

DeadIdle ==
  /\ deadPc = "idle"
  /\ pass = 1
  /\ componentFiles = <<>>
  /\ allUsages = ""
  /\ tsFiles = <<>>
  /\ contents = [f \in {} |-> 0]
  /\ allImports = ""
  /\ srcFiles = <<>>
  /\ allRefs = ""
  /\ unusedComponents = <<>>
  /\ unusedExports = <<>>
  /\ orphaned = <<>>
  /\ deadCode = NoDeadCode
  /\ lastDeadCode = NoDeadCode

(***************************************************************************)
(* Compliance indicators: runAnalysis 1143-1223 and the score of           *)
(* generateSecurityCompliance (lib/generateHTML.js 916-978).  The grep     *)
(* pipeline lists the files whose content matches; a category is decided   *)
(* by the file's path alone.                                               *)
(***************************************************************************)
\* 1146-1152, and complianceItems (generateHTML.js 940-946) in the same order
ComplianceKeys ==
  << "ageVerification", "contentModeration", "identityVerification",
     "reportingMechanism", "recordKeeping", "userSafety", "paymentCompliance" >>

KeySet == { ComplianceKeys[j] : j \in 1..Len(ComplianceKeys) }

\* 1171-1207: the words looked for in the lower-cased path
Keywords(key) ==
  CASE key = "ageVerification" -> { "age", "sumsub", "onfido", "birth" }
    [] key = "contentModeration" -> { "moderat", "nsfw", "safety" }
    [] key = "identityVerification" -> { "kyc", "identity", "verif" }
    [] key = "reportingMechanism" -> { "report", "flag", "abuse" }
    [] key = "recordKeeping" -> { "2257", "record" }
    [] key = "userSafety" -> { "block", "mute", "2fa", "otp", "security" }
    [] key = "paymentCompliance" -> { "stripe", "payout", "payment", "chargeback" }

\* the condition of one if: lowerFile.includes(...) || ...
Attributed(file, key) ==
  LET lowerFile == ToLowerCase(file)
  IN  \E w \in Keywords(key) : Includes(lowerFile, w)

\* 1145-1153
NoCompliance == [key \in KeySet |-> [found |-> FALSE, files |-> <<>>, notes |-> <<>>]]

\* a faulty variant: the flag is flipped instead of set
AttributeToggle(comp, file, key) ==
  LET relFile == RelativeTo(repoPath, file) IN
  IF Attributed(file, key)
  THEN [comp EXCEPT ![key].found = ~comp[key].found,
                    ![key].files = IF \E i \in 1..Len(@) : @[i] = relFile
                                   THEN @ ELSE Append(@, relFile)]
  ELSE comp

\* a faulty variant: the flag is set and the path not kept
AttributeFlagOnly(comp, file, key) ==
  IF Attributed(file, key) THEN [comp EXCEPT ![key].found = TRUE] ELSE comp

\* a faulty variant: the path is pushed without looking for it in the list
AttributeAgain(comp, file, key) ==
  LET relFile == RelativeTo(repoPath, file) IN
  IF Attributed(file, key)
  THEN [comp EXCEPT ![key].found = TRUE, ![key].files = Append(@, relFile)]
  ELSE comp

\* one if of the forEach body (1171-1174 and its six likes)
AttributeTo(comp, file, key) ==
  LET relFile == RelativeTo(repoPath, file) IN
  IF Attributed(file, key)
  THEN [comp EXCEPT ![key].found = TRUE,
                    ![key].files = IF \E i \in 1..Len(@) : @[i] = relFile
                                   THEN @ ELSE Append(@, relFile)]
  ELSE comp

\* the first n ifs of the forEach body, in order
RECURSIVE AttributeUpTo(_, _, _)
AttributeUpTo(comp, file, n) ==
  IF n = 0 THEN comp
  ELSE AttributeTo(AttributeUpTo(comp, file, n - 1), file, ComplianceKeys[n])

\* 1166-1210: the forEach body
Attribute(comp, file) == AttributeUpTo(comp, file, Len(ComplianceKeys))

\* 1222: slice(0, 8)
EvidenceKept == 8

\* 1215-1217
SumSubNote == "SumSub integration detected (industry-standard KYC)"

\* generateHTML.js 976: the categories whose found is truthy
PassedChecks(comp) ==
  Cardinality({ key \in KeySet : key \in DOMAIN comp /\ comp[key].found })

\* a faulty variant: the share is cut, not rounded
ScoreTruncated(passed, totalChecks) == (passed * 100) \div totalChecks

\* generateHTML.js 977
ComplianceScore(passed, totalChecks) == MathRound(passed, totalChecks)

\* 1157-1163: the pipeline is run.  Its output is trimmed, split and the
\* blank lines dropped; a pipeline that throws (the 15 s timeout) leaves the
\* section for the catch at 1218.
ComplianceGrep ==
  /\ compPc = "start"
  /\ compliance' = NoCompliance
  /\ \/ /\ complianceFiles' =
             SelectSeq(TrimmedLines(complianceOutput), LAMBDA f : Trim(f) # "")
        /\ compPc' = "files"
        /\ threw' = threw
     \/ /\ complianceFiles' = <<>>
        /\ compPc' = "limit"
        /\ threw' = TRUE
  /\ compIdx' = 1
  /\ UNCHANGED <<complianceOutput, passedChecks, complianceScore>>
  /\ UNCHANGED <<repoPath, checkout, lastCompliance>>
  /\ UNCHANGED exceptComp

\* 1165-1211: one turn of files.forEach
ComplianceFile ==
  /\ compPc = "files"
  /\ compIdx <= Len(complianceFiles)
  /\ compliance' = Attribute(compliance, complianceFiles[compIdx])
  /\ compIdx' = compIdx + 1
  /\ UNCHANGED <<compPc, complianceOutput, complianceFiles, passedChecks, complianceScore>>
  /\ UNCHANGED <<repoPath, checkout, lastCompliance, threw>>
  /\ UNCHANGED exceptComp

\* 1214-1217: the note on a SumSub integration
ComplianceNotes ==
  /\ compPc = "files"
  /\ compIdx > Len(complianceFiles)
  /\ LET fs == compliance["ageVerification"].files IN
     compliance' =
       IF \E i \in 1..Len(fs) : Includes(ToLowerCase(fs[i]), "sumsub")
       THEN [compliance EXCEPT !["ageVerification"].notes = Append(@, SumSubNote)]
       ELSE compliance
  /\ compPc' = "limit"
  /\ UNCHANGED <<complianceOutput, complianceFiles, compIdx, passedChecks, complianceScore>>
  /\ UNCHANGED <<repoPath, checkout, lastCompliance, threw>>
  /\ UNCHANGED exceptComp

\* 1220-1223: the file lists are cut
ComplianceLimit ==
  /\ compPc = "limit"
  /\ compliance' = [key \in KeySet |->
                      [compliance[key] EXCEPT !.files = Slice(@, EvidenceKept)]]
  /\ compPc' = "done"
  /\ UNCHANGED <<complianceOutput, complianceFiles, compIdx, passedChecks, complianceScore>>
  /\ UNCHANGED <<repoPath, checkout, lastCompliance, threw>>
  /\ UNCHANGED exceptComp

\* the same tree is analysed at another place: each path the pipeline prints
\* starts with the new place
Moved(from, to, line) ==
  IF StartsWith(line, from \o "/") THEN to \o SubSeq(line, Len(from) + 1, Len(line))
  ELSE line

\* 163, 324-332: the places a tree is analysed at: the current directory, a
\* clone of a repository named pager, a clone of one named records
RepoPaths == { RepoPath, "/tmp/on-bored-pager-17", "/tmp/on-bored-records-18" }

AnalyseElsewhere ==
  /\ compPc = "shown"
  /\ checkout = 1
  /\ checkout' = 2
  /\ lastCompliance' = compliance
  /\ repoPath' \in RepoPaths \ { repoPath }
  /\ complianceOutput' = [i \in 1..Len(complianceOutput) |->
                            Moved(repoPath, repoPath', complianceOutput[i])]
  /\ compPc' = "start"
  /\ complianceFiles' = <<>>
  /\ compIdx' = 1
  /\ UNCHANGED <<compliance, passedChecks, complianceScore, threw>>
  /\ UNCHANGED exceptComp

\* generateHTML.js 974-978: security.html is rendered from the finished data
GenerateSecurityCompliance ==
  /\ compPc = "done"
  /\ LET totalChecks == Len(ComplianceKeys) IN
     /\ passedChecks' = PassedChecks(compliance)
     /\ complianceScore' = ComplianceScore(passedChecks', totalChecks)
  /\ compPc' = "shown"
  /\ UNCHANGED <<complianceOutput, complianceFiles, compIdx, compliance>>
  /\ UNCHANGED <<repoPath, checkout, lastCompliance, threw>>
  /\ UNCHANGED exceptComp

ComplianceIdle ==
  /\ repoPath = RepoPath
  /\ checkout = 1
  /\ lastCompliance = NoCompliance
  /\ threw = FALSE
  /\ compPc = "idle"
  /\ complianceOutput = <<>>
  /\ complianceFiles = <<>>
  /\ compIdx = 1
  /\ compliance = NoCompliance
  /\ passedChecks = 0
  /\ complianceScore = 0

(***************************************************************************)
(* Exposed sensitive files: runAnalysis 1126-1141.  worktree is what find  *)
(* would print for the whole tree, in its order; ignoredPaths are the      *)
(* paths git check-ignore reports.                                         *)
(***************************************************************************)
\* 1128
sensitiveFiles ==
  << ".env", ".env.local", ".env.production", "credentials.json",
     "serviceAccount.json", "private.key" >>

\* 1131: find -name file -type f | grep -v node_modules | head -1, trimmed
FirstFound(tree, file) ==
  LET hits == SelectSeq(tree, LAMBDA f : BaseName(f) = file /\ ~Includes(f, "node_modules"))
  IN  IF hits = <<>> THEN "" ELSE Trim(hits[1])

\* 1134, 355-361: git check-ignore prints the path when it is ignored and
\* fails with no output when it is not
CheckIgnore(rel, ignored) == IF rel \in ignored THEN rel ELSE ""

\* 1136
Exposure(file, found) ==
  [type |-> "exposure", name |-> file \o " may be committed to repo",
   file |-> Relative(found)]

\* 1129-1140: one turn of sensitiveFiles.forEach.  The git helper gives ''
\* as well when git itself fails.
ExposureCheck ==
  /\ expPc = "loop"
  /\ expIdx <= Len(sensitiveFiles)
  /\ LET file == sensitiveFiles[expIdx]
         found == FirstFound(worktree, file)
     IN  IF found # ""
         THEN \E gitignored \in { CheckIgnore(Relative(found), ignoredPaths), "" } :
                security' = IF gitignored = ""
                            THEN [security EXCEPT !.warnings = Append(@, Exposure(file, found))]
                            ELSE security
         ELSE security' = security
  /\ expIdx' = expIdx + 1
  /\ UNCHANGED <<expPc, worktree, ignoredPaths>>
  /\ UNCHANGED exceptExposure

\* 1140-1141: the forEach is over
ExposureEnd ==
  /\ expPc = "loop"
  /\ expIdx > Len(sensitiveFiles)
  /\ expPc' = "done"
  /\ UNCHANGED <<expIdx, worktree, ignoredPaths, security>>
  /\ UNCHANGED exceptExposure

\* 1074
NoFindings == [vulnerabilities |-> <<>>, warnings |-> <<>>]

ExposureIdle ==
  /\ expPc = "idle"
  /\ expIdx = 1
  /\ worktree = <<>>
  /\ ignoredPaths = {}
  /\ security = NoFindings

(***************************************************************************)
(* Monthly breakdown: runAnalysis 507-529.  A date is a year, a month      *)
(* numbered from 0 as Date does, and a day of the month.  The counts of a  *)
(* bucket are what git prints for its window and are left out.             *)
(***************************************************************************)
IsLeap(y) == (y % 4 = 0 /\ y % 100 # 0) \/ y % 400 = 0

DaysIn(y, m) ==
  IF m = 1 THEN (IF IsLeap(y) THEN 29 ELSE 28)
  ELSE IF m \in { 3, 5, 8, 10 } THEN 30 ELSE 31

\* Date.prototype.setMonth (512, 516): the month is carried into the year,
\* and a day past the end of the month is carried into the next month
SetMonth(date, m) ==
  LET y == date.year + (IF m >= 0 THEN m \div 12 ELSE -((11 - m) \div 12))
      mo == m % 12
      len == DaysIn(y, mo)
  IN  IF date.day <= len THEN [year |-> y, month |-> mo, day |-> date.day]
      ELSE [year |-> IF mo = 11 THEN y + 1 ELSE y,
            month |-> (mo + 1) % 12,
            day |-> date.day - len]

Digit(n) == SubSeq("0123456789", n + 1, n + 1)

\* 514, 518: String(n).padStart(2, '0')
PadStart2(n) == IF n < 10 THEN "0" \o Digit(n) ELSE Digit(n \div 10) \o Digit(n % 10)

\* a year of four digits in a template string
YearString(y) ==
  Digit(y \div 1000) \o Digit((y \div 100) % 10) \o Digit((y \div 10) % 10) \o Digit(y % 10)

\* 524: toLocaleString('default', { month: 'short' })
ShortMonths ==
  << "Jan", "Feb", "Mar", "Apr", "May", "Jun",
     "Jul", "Aug", "Sep", "Oct", "Nov", "Dec" >>

\* 511-528: the bucket of one i, with the window its two git calls ask for
Bucket(now, i) ==
  LET date == SetMonth(now, now.month - i)
      nextDate == SetMonth(date, date.month + 1)
  IN  [label |-> ShortMonths[date.month + 1],
       year |-> date.year,
       after |-> YearString(date.year) \o "-" \o PadStart2(date.month + 1) \o "-01",
       before |-> YearString(nextDate.year) \o "-" \o PadStart2(nextDate.month + 1) \o "-01"]

\* 510-529: one turn of the for loop
MonthTurn ==
  /\ monPc = "loop"
  /\ monI >= 0
  /\ months' = Append(months, Bucket(today, monI))
  /\ monI' = monI - 1
  /\ UNCHANGED <<monPc, today>>
  /\ UNCHANGED exceptMonths

\* 510: i >= 0 fails
MonthsEnd ==
  /\ monPc = "loop"
  /\ monI < 0
  /\ monPc' = "done"
  /\ UNCHANGED <<monI, today, months>>
  /\ UNCHANGED exceptMonths

MonthsIdle ==
  /\ monPc = "idle"
  /\ monI = 5
  /\ today = [year |-> 2024, month |-> 0, day |-> 1]
  /\ months = <<>>

(***************************************************************************)
(* The viewer: server.js.  A request is a URL as the client wrote it in    *)
(* the request line; node's http hands it to the handler unchanged.        *)
(***************************************************************************)
\* posix path.normalize of an absolute path: empty and '.' segments are
\* dropped, '..' drops the segment before it and at the root is dropped
RECURSIVE Resolve(_, _)
Resolve(segs, acc) ==
  IF segs = <<>> THEN acc
  ELSE LET h == Head(segs) IN
       Resolve(Tail(segs),
               IF h = "" \/ h = "." THEN acc
               ELSE IF h = ".." THEN (IF acc = <<>> THEN acc ELSE SubSeq(acc, 1, Len(acc) - 1))
               ELSE Append(acc, h))

RECURSIVE JoinSegs(_)
JoinSegs(segs) == IF segs = <<>> THEN "" ELSE "/" \o Head(segs) \o JoinSegs(Tail(segs))

\* path.join(dir, p) for an absolute dir
PathJoin(dir, p) ==
  LET out == JoinSegs(Resolve(Split(dir \o "/" \o p, "/"), <<>>))
  IN  IF out = "" THEN "/" ELSE out

\* 6: path.join(__dirname, 'output'), the package installed in /app
OUTPUT_DIR == "/app/output"

\* 8-15, 21-22
ContentType(filePath) ==
  LET ext == ExtName(filePath) IN
  CASE ext = ".html" -> "text/html"
    [] ext = ".css" -> "text/css"
    [] ext = ".js" -> "application/javascript"
    [] ext = ".json" -> "application/json"
    [] ext = ".png" -> "image/png"
    [] ext = ".svg" -> "image/svg+xml"
    [] OTHER -> "application/octet-stream"

\* 18-19
FilePath(url) == PathJoin(OUTPUT_DIR, IF url = "/" THEN "/index.html" ELSE url)

\* fs.readFile: the content of a file, ENOENT for no entry, another error
\* for a directory
ReadFile(fs, filePath) ==
  IF filePath \notin DOMAIN fs THEN [err |-> "ENOENT", content |-> ""]
  ELSE IF fs[filePath].dir THEN [err |-> "EISDIR", content |-> ""]
  ELSE [err |-> "", content |-> fs[filePath].content]

\* 17-24: the handler runs up to the call of fs.readFile
Handle ==
  /\ \E r \in DOMAIN requests :
       /\ requests[r].at = "sent"
       /\ requests' = [requests EXCEPT ![r].at = "reading",
                                       ![r].filePath = FilePath(requests[r].url)]
  /\ UNCHANGED <<disk, responses>>
  /\ UNCHANGED exceptServer

\* 24-37: the callback of fs.readFile
Reply(read, filePath) ==
  IF read.err = "ENOENT"
    THEN [status |-> 404, type |-> "",
          body |-> "File not found. Run \"npm run analyze <repo-path>\" first."]
  ELSE IF read.err # ""
    THEN [status |-> 500, type |-> "", body |-> "Server error"]
  ELSE [status |-> 200, type |-> ContentType(filePath), body |-> read.content]

Answer ==
  /\ \E r \in DOMAIN requests :
       /\ requests[r].at = "reading"
       /\ responses' = [responses EXCEPT ![r] =
            Append(@, Reply(ReadFile(disk, requests[r].filePath), requests[r].filePath))]
       /\ requests' = [requests EXCEPT ![r].at = "answered"]
  /\ UNCHANGED disk
  /\ UNCHANGED exceptServer

ServerIdle ==
  /\ requests = <<>>
  /\ responses = <<>>
  /\ disk = <<>>

(***************************************************************************)
(* Watch mode: bin/cli.js 1444-1481.  A run is one call of runWithAI,      *)
(* numbered in the order of its start; run 1 is the initial analysis, the  *)
(* later ones are started by the interval timer.  runAnalysis is           *)
(* synchronous; a run with an AI provider then waits for the answer, and   *)
(* timers fire while it waits.  The output is data.json and the pages.     *)
(***************************************************************************)
\* 346-352, 1445: runAnalysis of run r.  Outside a git repository it ends the
\* process; it may throw (an unguarded read, 663); else it returns.
Analysed(r, periodic) ==
  \/ /\ ~targetIsRepo
     /\ alive' = FALSE
     /\ endedBy' = r
     /\ watchRuns' = Append(watchRuns, [periodic |-> periodic, at |-> "exited"])
     /\ UNCHANGED <<outputFiles, logged>>
  \/ /\ targetIsRepo
     /\ \/ \* it throws: 1462-1465 for the initial run, 1477-1479 for a refresh
           /\ watchRuns' = Append(watchRuns, [periodic |-> periodic, at |-> "failed"])
           /\ IF periodic
                THEN logged' = logged \cup { r } /\ UNCHANGED <<alive, endedBy>>
                ELSE alive' = FALSE /\ endedBy' = r /\ UNCHANGED logged
           /\ UNCHANGED outputFiles
        \/ \* 274: without a provider the run goes on to write at once
           /\ ~aiEnabled
           /\ watchRuns' = Append(watchRuns, [periodic |-> periodic, at |-> "written"])
           /\ outputFiles' = [json |-> r, html |-> r]
           /\ UNCHANGED <<alive, endedBy, logged>>
        \/ \* 1448: the run waits for the provider
           /\ aiEnabled
           /\ watchRuns' = Append(watchRuns, [periodic |-> periodic, at |-> "waiting"])
           /\ UNCHANGED <<outputFiles, alive, endedBy, logged>>

\* 1462: the initial analysis
InitialRun ==
  /\ alive
  /\ watchRuns = <<>>
  /\ Analysed(1, FALSE)
  /\ UNCHANGED <<targetIsRepo, aiEnabled>>
  /\ UNCHANGED exceptWatch

\* 1473-1480: the interval timer fires
Tick ==
  /\ alive
  /\ watchRuns # <<>>
  /\ Len(watchRuns) <= MaxTicks
  /\ Analysed(Len(watchRuns) + 1, TRUE)
  /\ UNCHANGED <<targetIsRepo, aiEnabled>>
  /\ UNCHANGED exceptWatch

\* 1448-1455: the provider has answered run r (or failed, which enhanceWithAI
\* turns into unchanged data); data.json is written, then the pages, and
\* generateHTML may throw after data.json is written
Written ==
  /\ alive
  /\ \E r \in 1..Len(watchRuns) :
       /\ watchRuns[r].at = "waiting"
       /\ \/ /\ outputFiles' = [json |-> r, html |-> r]
             /\ watchRuns' = [watchRuns EXCEPT ![r].at = "written"]
             /\ UNCHANGED <<alive, endedBy, logged>>
          \/ /\ outputFiles' = [outputFiles EXCEPT !.json = r]
             /\ watchRuns' = [watchRuns EXCEPT ![r].at = "failed"]
             /\ IF watchRuns[r].periodic
                  THEN logged' = logged \cup { r } /\ UNCHANGED <<alive, endedBy>>
                  ELSE alive' = FALSE /\ endedBy' = r /\ UNCHANGED logged
  /\ UNCHANGED <<targetIsRepo, aiEnabled>>
  /\ UNCHANGED exceptWatch

\* the analysed directory stops being a git repository
RepositoryGone ==
  /\ alive
  /\ targetIsRepo
  /\ targetIsRepo' = FALSE
  /\ UNCHANGED <<aiEnabled, alive, endedBy, watchRuns, outputFiles, logged>>
  /\ UNCHANGED exceptWatch

WatchIdle ==
  /\ alive = FALSE
  /\ endedBy = 0
  /\ targetIsRepo = TRUE
  /\ aiEnabled = FALSE
  /\ watchRuns = <<>>
  /\ outputFiles = [json |-> 0, html |-> 0]
  /\ logged = {}

\* the parts of the analysis other than a run and a contributor, not started
ScansIdle == ChurnIdle /\ DeadIdle /\ ComplianceIdle /\ ExposureIdle /\ MonthsIdle /\ ServerIdle /\ WatchIdle

(***************************************************************************)
(* runAnalysis: the scan sections and their collaborator calls.            *)
(* A call is own-guarded when its failure is caught around that call alone *)
(* (the git() helper, or a try block holding only that call), so that it   *)
(* counts as empty output.  A section is guarded when one try block holds  *)
(* all its calls that are not own-guarded.  dep names the call (by its     *)
(* position in the section, 0 for none) whose non-empty output a call is   *)
(* made for.                                                               *)
(***************************************************************************)
Call(n, o, d) == [name |-> n, own |-> o, dep |-> d]

Sections == <<
  \* 372-376: git() x 4
  [name |-> "basicInfo", guarded |-> FALSE, calls |->
     << Call("remoteUrl", TRUE, 0), Call("currentBranch", TRUE, 0),
        Call("firstCommitDate", TRUE, 0), Call("latestCommitDate", TRUE, 0) >>],
  \* 379-381
  [name |-> "commitStats", guarded |-> FALSE, calls |->
     << Call("totalCommits", TRUE, 0), Call("totalFixCommits", TRUE, 0) >>],
  \* 384-505: git shortlog, then git log --author for each contributor
  [name |-> "contributors", guarded |-> FALSE, calls |->
     << Call("shortlog", TRUE, 0), Call("authorLog", TRUE, 1) >>],
  \* 509-529
  [name |-> "months", guarded |-> FALSE, calls |->
     << Call("monthTotal", TRUE, 0), Call("monthFixes", TRUE, 0) >>],
  \* 533-543
  [name |-> "topFiles", guarded |-> FALSE, calls |->
     << Call("fileChurnRaw", TRUE, 0) >>],
  \* 547-562
  [name |-> "categoryStats", guarded |-> FALSE, calls |->
     << Call("grepLog", TRUE, 0) >>],
  \* 566-653: scanPackageJson (try 588-610) and three finds, each in its own try
  [name |-> "techStack", guarded |-> FALSE, calls |->
     << Call("packageJson", TRUE, 0), Call("pyFiles", TRUE, 0),
        Call("dockerFiles", TRUE, 0), Call("flutterFiles", TRUE, 0) >>],
  \* 657-707: fs.readFileSync of the README, in no try block
  [name |-> "readme", guarded |-> FALSE, calls |->
     << Call("readmeRead", FALSE, 0) >>],
  \* 721-752: one try block around the four route scans
  [name |-> "apiEndpoints", guarded |-> TRUE, calls |->
     << Call("jsApiFiles", FALSE, 0), Call("pyRoutes", FALSE, 0),
        Call("rsRoutes", FALSE, 0), Call("goRoutes", FALSE, 0) >>],
  \* 755-759
  [name |-> "dbSchemas", guarded |-> TRUE, calls |->
     << Call("schemaFiles", FALSE, 0) >>],
  \* 762-778
  [name |-> "pages", guarded |-> TRUE, calls |->
     << Call("pageFiles", FALSE, 0), Call("entryPoints", FALSE, 0) >>],
  \* 781-809
  [name |-> "modules", guarded |-> TRUE, calls |->
     << Call("pyPackages", FALSE, 0), Call("rsModules", FALSE, 0),
        Call("goPackages", FALSE, 0) >>],
  \* 812-852: one try block around the component, class and struct scans
  [name |-> "components", guarded |-> TRUE, calls |->
     << Call("compFiles", FALSE, 0), Call("pyClasses", FALSE, 0),
        Call("rsStructs", FALSE, 0) >>],
  \* 855-920: readdirSync has its own try (860-873)
  [name |-> "functions", guarded |-> TRUE, calls |->
     << Call("funcDirs", FALSE, 0), Call("readdir", TRUE, 1),
        Call("pyFuncs", FALSE, 0), Call("rsFuncs", FALSE, 0),
        Call("goFuncs", FALSE, 0), Call("jsFuncs", FALSE, 0) >>],
  \* 923-933
  [name |-> "envVars", guarded |-> TRUE, calls |->
     << Call("envFiles", FALSE, 0), Call("envRead", TRUE, 1) >>],
  \* 940-981
  [name |-> "unusedComponents", guarded |-> TRUE, calls |->
     << Call("componentFiles", FALSE, 0), Call("allUsages", TRUE, 0) >>],
  \* 984-1033
  [name |-> "unusedExports", guarded |-> TRUE, calls |->
     << Call("tsFiles", FALSE, 0), Call("allImports", TRUE, 0),
        Call("exportRead", TRUE, 1) >>],
  \* 1036-1070
  [name |-> "unusedFiles", guarded |-> TRUE, calls |->
     << Call("srcFiles", FALSE, 0), Call("allRefs", TRUE, 0) >>],
  \* 1077-1099: one try per pattern
  [name |-> "secrets", guarded |-> TRUE, calls |->
     << Call("secretGrep", TRUE, 0) >>],
  \* 1102-1124
  [name |-> "injections", guarded |-> TRUE, calls |->
     << Call("injectionGrep", TRUE, 0) >>],
  \* 1127-1141: one try per file name; git check-ignore through git()
  [name |-> "warnings", guarded |-> TRUE, calls |->
     << Call("sensitiveFind", TRUE, 0), Call("checkIgnore", TRUE, 1) >>],
  \* 1156-1218
  [name |-> "compliance", guarded |-> TRUE, calls |->
     << Call("allComplianceMatches", FALSE, 0) >>],
  \* 1228-1233
  [name |-> "openIssues", guarded |-> TRUE, calls |->
     << Call("issuesRaw", FALSE, 0) >>]
>>

NumSections == Len(Sections)

SectionNames == { Sections[i].name : i \in 1..NumSections }

\* a call returns output ("ok"), returns nothing ("empty") or throws ("fail")
Outcomes == {"ok", "empty", "fail"}

FaultsIn(o) == Cardinality({ i \in DOMAIN o : o[i] # "ok" })

Member(x, s) == \E i \in 1..Len(s) : s[i] = x

(***************************************************************************)
(* One section: its calls run in order.  A call made for another call's    *)
(* output is skipped when that output is empty.  A throwing call is taken  *)
(* as empty when own-guarded; otherwise it leaves the section's try block, *)
(* keeping what was collected, or, with no try block, leaves runAnalysis.  *)
(***************************************************************************)
RECURSIVE RunCalls(_, _, _, _)
RunCalls(S, o, i, out) ==
  IF i > Len(S.calls) THEN [out |-> out, threw |-> FALSE]
  ELSE LET c == S.calls[i]
           made == c.dep = 0 \/ Member(S.calls[c.dep].name, out)
       IN  IF ~made THEN RunCalls(S, o, i + 1, out)
           ELSE IF o[i] = "ok" THEN RunCalls(S, o, i + 1, Append(out, c.name))
           ELSE IF o[i] = "empty" \/ c.own THEN RunCalls(S, o, i + 1, out)
           ELSE [out |-> out, threw |-> ~S.guarded]

RunSection(S, o) == RunCalls(S, o, 1, <<>>)

(***************************************************************************)
(* The report object (1390-1423) and the summary derived from the scans    *)
(* (1292-1385).  The three ai fields are absent ("undefined") until        *)
(* enhanceWithAI sets them.                                                *)
(***************************************************************************)
NoScan == [n \in SectionNames |-> <<>>]

GeneratedSummary(sc) ==
  { n \in {"techStack", "readme", "apiEndpoints", "pages", "modules",
           "components", "functions"} : sc[n] # <<>> }

BuildData(sc) ==
  [sections |-> sc, generatedSummary |-> GeneratedSummary(sc),
   aiSummary |-> "undefined", aiKeyThings |-> "undefined",
   aiGotchas |-> "undefined"]

NoData == BuildData(NoScan)

\* the JSON types a field of the service's answer can have
JsonKinds == {"undefined", "string", "array"}

\* what callAI resolves to: null, or the text of the answer, which is empty,
\* holds no {...}, holds a {...} that JSON.parse rejects, or holds an object
Response(k, s, t, g) == [kind |-> k, summary |-> s, keyThings |-> t, gotchas |-> g]

NullResponse == Response(Null, "undefined", "undefined", "undefined")

Texts ==
  { Response(k, "undefined", "undefined", "undefined") :
      k \in {"empty", "nojson", "badjson"} }
  \cup { Response("json", s, t, g) : s \in JsonKinds, t \in JsonKinds, g \in JsonKinds }

\* enhanceWithAI 300-317: a response that is falsy, holds no JSON or does not
\* parse leaves data alone; a parsed one sets the three ai fields
ApplyAIClobber(d, r) ==
  IF r.kind = "json"
    THEN [d EXCEPT !.aiSummary = r.summary, !.aiKeyThings = r.keyThings,
                   !.aiGotchas = r.gotchas, !.generatedSummary = {}]
    ELSE d

ApplyAI(d, r) ==
  IF r.kind = "json"
    THEN [d EXCEPT !.aiSummary = r.summary, !.aiKeyThings = r.keyThings,
                   !.aiGotchas = r.gotchas]
    ELSE d

\* generateHTML 4-19: the pages in the order they are rendered and written
Pages == <<"index.html", "health-report.html", "flow.html", "security.html",
           "new-dev.html">>

\* generateViewer 368-380 calls text.replace on aiSummary and .map on
\* aiKeyThings and aiGotchas when they are truthy; generateNewDevFlow
\* 1269-1288 calls .map on the two lists
RenderThrows(p, d) ==
  \/ p = "index.html" /\ d.aiSummary = "array"
  \/ p \in {"index.html", "new-dev.html"}
       /\ (d.aiKeyThings = "string" \/ d.aiGotchas = "string")

ReportFiles == {"data.json"} \cup { Pages[i] : i \in 1..Len(Pages) }

(***************************************************************************)
(* The invocation                                                          *)
(***************************************************************************)
Exit(code, why) ==
  /\ pc' = "exited"
  /\ exitCode' = code
  /\ error' = why

\* 322-339: git clone; a failed clone ends the process with status 1
Clone ==
  /\ pc = "clone"
  /\ \/ /\ pc' = "analysis"
        /\ UNCHANGED <<error, exitCode>>
     \/ Exit(1, "clone")
  /\ UNCHANGED <<isRepo, sec, scan, cur, faults, aiProvider, data, aiResponse,
                 files, page>>
  /\ UNCHANGED exceptRun

\* 346-352: not a git repository: process.exit(1) inside runAnalysis
RevParse ==
  /\ pc = "analysis"
  /\ IF isRepo
       THEN /\ pc' = "scan"
            /\ UNCHANGED <<error, exitCode>>
       ELSE Exit(1, "notRepo")
  /\ UNCHANGED <<isRepo, sec, scan, cur, faults, aiProvider, data, aiResponse,
                 files, page>>
  /\ UNCHANGED exceptRun

\* 369-1233: the next scan section, under any outcome of its calls
ScanSection ==
  /\ pc = "scan"
  /\ sec <= NumSections
  /\ LET S == Sections[sec] IN
     \E o \in [1..Len(S.calls) -> Outcomes] :
       /\ faults + FaultsIn(o) <= MaxFaults
       /\ faults' = faults + FaultsIn(o)
       /\ cur' = o
       /\ LET r == RunSection(S, o) IN
          /\ scan' = [scan EXCEPT ![S.name] = r.out]
          /\ IF r.threw
               THEN /\ pc' = "rejected"
                    /\ error' = "scan"
                    /\ sec' = sec
               ELSE /\ sec' = sec + 1
                    /\ UNCHANGED <<pc, error>>
  /\ UNCHANGED <<isRepo, aiProvider, data, aiResponse, files, page, exitCode>>
  /\ UNCHANGED exceptRun

\* 1235-1441: flow data, summary and the report object; runAnalysis returns
BuildOutput ==
  /\ pc = "scan"
  /\ sec = NumSections + 1
  /\ data' = BuildData(scan)
  /\ pc' = "enhance"
  /\ UNCHANGED <<isRepo, sec, scan, cur, faults, aiProvider, aiResponse, files,
                 page, error, exitCode>>
  /\ UNCHANGED exceptRun

\* enhanceWithAI 273-300 and callAI 256-271 up to the request being sent
EnhanceStart ==
  /\ pc = "enhance"
  /\ \/ /\ aiProvider = "none"
        /\ pc' = "writeJson"
        /\ UNCHANGED aiResponse
     \/ /\ aiProvider = "ollama"
        /\ pc' = "waitAI"
        /\ UNCHANGED aiResponse
     \/ /\ aiProvider = "openai"
        \* 223-224: without OPENAI_API_KEY callOpenAI throws, callAI returns null
        /\ \/ /\ pc' = "waitAI"
              /\ UNCHANGED aiResponse
           \/ /\ pc' = "parse"
              /\ aiResponse' = NullResponse
     \/ /\ aiProvider = "other"
        /\ pc' = "parse"
        /\ aiResponse' = NullResponse
  /\ UNCHANGED <<isRepo, sec, scan, cur, faults, aiProvider, data, files, page,
                 error, exitCode>>
  /\ UNCHANGED exceptRun

\* 205-214, 240-248: the service answers; a body JSON.parse rejects gives null
AIRespond ==
  /\ pc = "waitAI"
  /\ \E r \in Texts \cup {NullResponse} : aiResponse' = r
  /\ pc' = "parse"
  /\ UNCHANGED <<isRepo, sec, scan, cur, faults, aiProvider, data, files, page,
                 error, exitCode>>
  /\ UNCHANGED exceptRun

\* 215, 250: req.on('error', reject)
AIError ==
  /\ pc = "waitAI"
  /\ aiResponse' = NullResponse
  /\ pc' = "parse"
  /\ UNCHANGED <<isRepo, sec, scan, cur, faults, aiProvider, data, files, page,
                 error, exitCode>>
  /\ UNCHANGED exceptRun

\* 216: req.setTimeout(120000, ...) of callOllama; callOpenAI sets no timeout
OllamaTimeout ==
  /\ pc = "waitAI"
  /\ aiProvider = "ollama"
  /\ aiResponse' = NullResponse
  /\ pc' = "parse"
  /\ UNCHANGED <<isRepo, sec, scan, cur, faults, aiProvider, data, files, page,
                 error, exitCode>>
  /\ UNCHANGED exceptRun

\* 300-317
EnhanceParse ==
  /\ pc = "parse"
  /\ data' = ApplyAI(data, aiResponse)
  /\ pc' = "writeJson"
  /\ UNCHANGED <<isRepo, sec, scan, cur, faults, aiProvider, aiResponse, files,
                 page, error, exitCode>>
  /\ UNCHANGED exceptRun

\* 1451: fs.writeFileSync of data.json, which throws when outputDir is missing
WriteJson ==
  /\ pc = "writeJson"
  /\ \/ /\ files' = files \cup {"data.json"}
        /\ pc' = "html"
        /\ page' = 1
        /\ UNCHANGED error
     \/ /\ pc' = "rejected"
        /\ error' = "write"
        /\ UNCHANGED <<files, page>>
  /\ UNCHANGED <<isRepo, sec, scan, cur, faults, aiProvider, data, aiResponse,
                 exitCode>>
  /\ UNCHANGED exceptRun

\* generateHTML 4-19: render the next page, then write it
WritePage ==
  /\ pc = "html"
  /\ page <= Len(Pages)
  /\ IF RenderThrows(Pages[page], data)
       THEN /\ pc' = "rejected"
            /\ error' = "render"
            /\ UNCHANGED <<files, page>>
       ELSE \/ /\ files' = files \cup {Pages[page]}
               /\ page' = page + 1
               /\ UNCHANGED <<pc, error>>
            \/ /\ pc' = "rejected"
               /\ error' = "write"
               /\ UNCHANGED <<files, page>>
  /\ UNCHANGED <<isRepo, sec, scan, cur, faults, aiProvider, data, aiResponse,
                 exitCode>>
  /\ UNCHANGED exceptRun

\* 1457-1459: runWithAI resolves; with nothing left to do the process ends
Finish ==
  /\ pc = "html"
  /\ page = Len(Pages) + 1
  /\ pc' = "done"
  /\ exitCode' = 0
  /\ UNCHANGED <<isRepo, sec, scan, cur, faults, aiProvider, data, aiResponse,
                 files, page, error>>
  /\ UNCHANGED exceptRun

\* 1462-1465: runWithAI().catch(...): process.exit(1)
Catch ==
  /\ pc = "rejected"
  /\ pc' = "exited"
  /\ exitCode' = 1
  /\ UNCHANGED <<isRepo, sec, scan, cur, faults, aiProvider, data, aiResponse,
                 files, page, error>>
  /\ UNCHANGED exceptRun

Providers == {"none", "ollama", "openai", "other"}

RunIdle ==
  /\ sec = 1
  /\ scan = NoScan
  /\ cur = <<>>
  /\ faults = 0
  /\ data = NoData
  /\ aiResponse = NullResponse
  /\ files = {}
  /\ page = 1
  /\ error = "none"
  /\ exitCode = -1

InitRun ==
  /\ pc \in {"clone", "analysis"}
  /\ isRepo \in BOOLEAN
  /\ aiProvider \in Providers
  /\ RunIdle
  /\ ContribIdle
  /\ ScansIdle

NextReport ==
  \/ EnhanceStart \/ AIRespond \/ AIError \/ OllamaTimeout \/ EnhanceParse
  \/ WriteJson \/ WritePage \/ Finish \/ Catch

NextRun == Clone \/ RevParse \/ ScanSection \/ BuildOutput \/ NextReport

SpecRun == InitRun /\ [][NextRun]_vars

(***************************************************************************)
(* runWithAI from the point where runAnalysis has returned its result set. *)
(***************************************************************************)
AllOk(S) == [i \in 1..Len(S.calls) |-> "ok"]

FullScan ==
  [n \in SectionNames |->
     LET i == CHOOSE j \in 1..NumSections : Sections[j].name = n
     IN  RunSection(Sections[i], AllOk(Sections[i])).out]

\* result sets of a run: everything found, or one section (or all) empty
SampleScans ==
  {FullScan, NoScan} \cup { [FullScan EXCEPT ![n] = <<>>] : n \in SectionNames }

InitReport ==
  /\ pc = "enhance"
  /\ isRepo = TRUE
  /\ aiProvider \in Providers
  /\ sec = NumSections + 1
  /\ scan \in SampleScans
  /\ cur = <<>>
  /\ faults = 0
  /\ data = BuildData(scan)
  /\ aiResponse = NullResponse
  /\ files = {}
  /\ page = 1
  /\ error = "none"
  /\ exitCode = -1
  /\ ContribIdle
  /\ ScansIdle

SpecReport == InitReport /\ [][NextReport]_vars

\* The event loop runs every continuation that is ready and fires the timer
\* callOllama sets; nothing makes the service answer.
FairReport ==
  /\ WF_vars(EnhanceStart) /\ WF_vars(OllamaTimeout) /\ WF_vars(EnhanceParse)
  /\ WF_vars(WriteJson) /\ WF_vars(WritePage) /\ WF_vars(Finish)
  /\ WF_vars(Catch)

SpecReportFair == InitReport /\ [][NextReport]_vars /\ FairReport

(***************************************************************************)
(* Claims about a run                                                      *)
(***************************************************************************)
\* the section whose calls cur holds
LastSection == IF pc = "rejected" /\ sec <= NumSections THEN sec ELSE sec - 1

\* C1: on a version-controlled target no failure of a collaborator call of a
\* scan step aborts the run: runAnalysis never throws.
C1_NoScanFailureAborts ==
  isRepo => ~(pc = "rejected" /\ sec <= NumSections)

\* a failed call taken as a call that returned empty output
Degrade(o) == [i \in DOMAIN o |-> IF o[i] = "fail" THEN "empty" ELSE o[i]]

\* C2: a failed call changes only its own step: what a section collected is
\* what it collects in a run where each failed call returned empty output.
C2_FailureIsLocal ==
  (cur # <<>> /\ LastSection >= 1) =>
     LET S == Sections[LastSection]
     IN  scan[S.name] = RunSection(S, Degrade(cur)).out

\* C3: a run on a target that is not a repository exits non-zero and writes
\* nothing, and a run exits non-zero for no other reason.
C3_OnlyNotRepoAborts ==
  /\ (~isRepo /\ pc \notin {"clone", "analysis"}) => (exitCode = 1 /\ files = {})
  /\ (exitCode = 1 /\ error # "clone") => ~isRepo

ReportWritten == ReportFiles \subseteq files

\* C4: once the result set exists the report is eventually written, whatever
\* the summarization service does (a failing write to outputDir aside).
C4_ReportEventuallyWritten ==
  (pc = "enhance") ~> (ReportWritten \/ error = "write")

NonAI(d) == [sections |-> d.sections, generatedSummary |-> d.generatedSummary]

AfterBuild == pc \notin {"clone", "analysis", "scan"} /\ sec = NumSections + 1

\* C5: enhanceWithAI leaves every field but aiSummary, aiKeyThings and
\* aiGotchas as runAnalysis built it, and leaves the whole report as built
\* when no provider is set, the provider is unknown, the call failed or the
\* answer did not parse.
C5_AdditiveOnly ==
  AfterBuild =>
    /\ NonAI(data) = NonAI(BuildData(scan))
    /\ (aiProvider \in {"none", "other"} \/ aiResponse.kind # "json")
         => data = BuildData(scan)

\* C5 witness: a parsed answer has been applied to a report with a summary
C5_Witness ==
  /\ pc = "writeJson"
  /\ aiResponse.kind = "json"
  /\ data.aiSummary = "string" /\ data.aiKeyThings = "array"
  /\ data.generatedSummary # {}

(***************************************************************************)
(* The aggregation of one contributor, and the normalisation alone         *)
(***************************************************************************)
RunNotStarted ==
  /\ pc = "idle"
  /\ isRepo = TRUE
  /\ aiProvider = "none"
  /\ RunIdle

InitContrib ==
  /\ RunNotStarted
  /\ ScansIdle
  /\ cpc = "start"
  /\ history \in SeqsUpTo(LinePool, MaxLines)
  /\ commitData = <<>>
  /\ idx = 1
  /\ currentCommitMsg = ""
  /\ filesTouched = <<>>
  /\ areasTouched = <<>>
  /\ categoryBreakdown = ZeroCounts
  /\ contributor = NoContributor

NextContrib == ReadHistory \/ ProcessLine \/ EndLoop \/ Derive

SpecContrib == InitContrib /\ [][NextContrib]_vars

\* The state after the forEach for a vector of counts; the lines behind the
\* counts are not kept.  Each category has a line that counts for it alone, so
\* every vector is one some history produces.  17 and 23 bring a sum to 40, the
\* least at which the double-precision percentage falls under an exact half.
RadarCounts == (0..MaxCount) \cup {17, 23}

InitRadar ==
  /\ RunNotStarted
  /\ ScansIdle
  /\ cpc = "derive"
  /\ history = <<>>
  /\ commitData = <<>>
  /\ idx = 1
  /\ currentCommitMsg = ""
  /\ filesTouched = <<>>
  /\ areasTouched = <<>>
  /\ categoryBreakdown \in [CatSet -> RadarCounts]
  /\ contributor = NoContributor

SpecRadar == InitRadar /\ [][Derive]_vars

\* Histories of a contributor working on the frontend: lines that count for
\* frontend alone (a message, a .vue, a .js and a .png file), and two that do not
FrontendPool ==
  { "e4f5a6 style button",
    "src/components/Button.vue",
    "src/ui/menu.js",
    "src/ui/icons/logo.png",
    "a1b2c3 add login form",
    "docs/guide.md" }

InitFrontend ==
  /\ RunNotStarted
  /\ ScansIdle
  /\ cpc = "start"
  /\ history \in SeqsUpTo(FrontendPool, MaxLines)
  /\ commitData = <<>>
  /\ idx = 1
  /\ currentCommitMsg = ""
  /\ filesTouched = <<>>
  /\ areasTouched = <<>>
  /\ categoryBreakdown = ZeroCounts
  /\ contributor = NoContributor

SpecFrontend == InitFrontend /\ [][NextContrib]_vars

InitChurn ==
  /\ RunNotStarted
  /\ WatchIdle
  /\ ServerIdle
  /\ MonthsIdle
  /\ ExposureIdle
  /\ ContribIdle
  /\ DeadIdle
  /\ ComplianceIdle
  /\ churnPc = "start"
  /\ churnOutput \in ChurnStreams
  /\ fileChurnRaw = <<>>
  /\ churnIdx = 1
  /\ fileChurnMap = <<>>
  /\ topFiles = <<>>

NextChurn == ChurnRead \/ ChurnLine \/ ChurnRank

SpecChurn == InitChurn /\ [][NextChurn]_vars

(***************************************************************************)
(* The dead-code section on a small tree, analysed twice                   *)
(***************************************************************************)
Two(i) == CharAt("0123456789", (i \div 10) + 1) \o CharAt("0123456789", (i % 10) + 1)

Numbered(prefix, n, suffix) == [i \in 1..n |-> prefix \o Two(i) \o suffix]

\* component listings: a few components, and one more than the list keeps
ComponentListings ==
  { <<>>,
    << "./src/components/UserCard.vue", "./src/components/NavBar.vue",
       "./src/components/Index.vue", "./pages/components/Hero.vue",
       "./src/pages/components/Home.vue", "./src/layouts/components/Shell.vue" >>,
    Numbered("./src/components/W", ComponentsKept + 1, ".vue") }

UsageIndexes ==
  { "",
    "import UserCard from './UserCard.vue'",
    "<Page><nav-bar /></Page>",
    "import { UserCardSkeleton } from './skeletons'" }

\* export listings: a few modules; five modules of six exports; thirty
\* modules without an export before one with
TsListings ==
  { <<>>,
    << "./src/lib/format.ts", "./src/hooks/session.ts", "./src/constants.ts",
       "./src/broken.ts" >>,
    Numbered("./src/m", 5, ".ts"),
    Numbered("./src/n", FilesRead, ".ts") \o << "./src/late.ts" >> }

TsPaths == UNION { { l[i] : i \in 1..Len(l) } : l \in TsListings }

Readable(names) == [readable |-> TRUE, exports |-> names]

FileContents ==
  [f \in TsPaths |->
     CASE f = "./src/lib/format.ts" -> Readable(<< "formatDate", "pad" >>)
       [] f = "./src/hooks/session.ts" -> Readable(<< "useSession", "readToken" >>)
       [] f = "./src/constants.ts" -> Readable(<< "LIMITS" >>)
       [] f = "./src/broken.ts" -> [readable |-> FALSE, exports |-> <<>>]
       [] f = "./src/late.ts" -> Readable(<< "lateExport" >>)
       [] StartsWith(f, "./src/m") ->
            Readable(Numbered("fn" \o CharAt(f, 9), ExportsTaken + 1, ""))
       [] OTHER -> Readable(<<>>)]

ImportIndexes ==
  { "",
    "import fmt from './lib/format'",
    "import { readToken } from './hooks/session'" }

\* source listings: a few modules, and one more than the list keeps
SrcListings ==
  { <<>>,
    << "./src/lib/format.ts", "./src/constants.ts", "./src/_draft.js",
       "./src/utils.js", "./src/main.ts" >>,
    Numbered("./src/k", FilesKept + 1, ".js") }

RefIndexes ==
  { "",
    "import fmt from './lib/format'",
    "const r = require('./reformatter')" }

InitDead ==
  /\ RunNotStarted
  /\ WatchIdle
  /\ ServerIdle
  /\ MonthsIdle
  /\ ExposureIdle
  /\ ContribIdle
  /\ ChurnIdle
  /\ ComplianceIdle
  /\ deadPc = "start"
  /\ pass = 1
  /\ componentFiles \in ComponentListings
  /\ allUsages \in UsageIndexes
  /\ tsFiles \in TsListings
  /\ contents = FileContents
  /\ allImports \in ImportIndexes
  /\ srcFiles \in SrcListings
  /\ allRefs \in RefIndexes
  /\ unusedComponents = <<>>
  /\ unusedExports = <<>>
  /\ orphaned = <<>>
  /\ deadCode = NoDeadCode
  /\ lastDeadCode = NoDeadCode

NextDead == StartDeadCode \/ ScanComponents \/ ScanExports \/ ScanOrphaned \/ ScanAgain

SpecDead == InitDead /\ [][NextDead]_vars

(***************************************************************************)
(* The compliance section and the score shown, over outputs of the grep    *)
(* pipeline.                                                               *)
(***************************************************************************)
\* one file for each category, in the order of the categories
OneEach ==
  << "./src/birthdate.js", "./src/nsfw/filter.js", "./src/kyc/check.ts",
     "./src/flagContent.js", "./docs/2257.md", "./lib/otp.js", "./src/payout.js" >>

\* a file of one category, two more of that category, one of two categories,
\* one of none, and a blank line
CompliancePool ==
  { "./src/birthdate.js", "./src/sumsub/client.js", "./src/ageVerify.ts",
    "./src/reportUser.js", "./src/login.js", "" }

\* one file more of one category than its list keeps
ManyAge == Numbered("./src/age/v", EvidenceKept + 1, ".js")

ComplianceOutputs ==
  LET few == SeqsUpTo(CompliancePool, MaxLines)
  IN  few \cup { s \o SubSeq(OneEach, 2, 7) : s \in few }
          \cup { SubSeq(OneEach, 3, 7) \o s : s \in few }
          \cup { ManyAge \o s : s \in SeqsUpTo({ ManyAge[1], "./src/payout.js" }, 1) }

InitCompliance ==
  /\ RunNotStarted
  /\ WatchIdle
  /\ ServerIdle
  /\ MonthsIdle
  /\ ExposureIdle
  /\ ContribIdle
  /\ ChurnIdle
  /\ DeadIdle
  /\ checkout = 1
  /\ lastCompliance = NoCompliance
  /\ threw = FALSE
  /\ compPc = "start"
  /\ repoPath = RepoPath
  /\ complianceOutput \in ComplianceOutputs
  /\ complianceFiles = <<>>
  /\ compIdx = 1
  /\ compliance = NoCompliance
  /\ passedChecks = 0
  /\ complianceScore = 0

NextCompliance ==
  \/ ComplianceGrep
  \/ ComplianceFile
  \/ ComplianceNotes
  \/ ComplianceLimit
  \/ GenerateSecurityCompliance

SpecCompliance == InitCompliance /\ [][NextCompliance]_vars

\* a tree analysed at one place, then at another
ElsewherePool ==
  { "./src/stripe/connect.js", "./src/payout.js", "./src/login.js", "./src/kyc/check.ts" }

InitElsewhere ==
  /\ RunNotStarted
  /\ WatchIdle
  /\ ServerIdle
  /\ MonthsIdle
  /\ ExposureIdle
  /\ ContribIdle
  /\ ChurnIdle
  /\ DeadIdle
  /\ checkout = 1
  /\ lastCompliance = NoCompliance
  /\ threw = FALSE
  /\ compPc = "start"
  /\ repoPath \in RepoPaths
  /\ \E out \in SeqsUpTo(ElsewherePool, MaxLines) :
       complianceOutput = [i \in 1..Len(out) |-> Moved(RepoPath, repoPath, out[i])]
  /\ complianceFiles = <<>>
  /\ compIdx = 1
  /\ compliance = NoCompliance
  /\ passedChecks = 0
  /\ complianceScore = 0

NextElsewhere ==
  \/ ComplianceGrep
  \/ ComplianceFile
  \/ ComplianceNotes
  \/ ComplianceLimit
  \/ GenerateSecurityCompliance
  \/ AnalyseElsewhere

SpecElsewhere == InitElsewhere /\ [][NextElsewhere]_vars

(***************************************************************************)
(* The exposure check over small trees.                                    *)
(***************************************************************************)
SensitivePool ==
  { "./.env", "./examples/.env", "./credentials.json", "./node_modules/pkg/.env" }

\* find prints no path twice
Worktrees ==
  { t \in SeqsUpTo(SensitivePool, MaxLines) :
      \A i, j \in 1..Len(t) : t[i] = t[j] => i = j }

\* 1094: what the scan for hardcoded secrets may have left
SecretFinding ==
  [type |-> "secret", severity |-> "critical", name |-> "Hardcoded API Key",
   file |-> "src/api.js"]

InitExposure ==
  /\ RunNotStarted
  /\ WatchIdle
  /\ ServerIdle
  /\ MonthsIdle
  /\ ContribIdle
  /\ ChurnIdle
  /\ DeadIdle
  /\ ComplianceIdle
  /\ expPc = "loop"
  /\ expIdx = 1
  /\ worktree \in Worktrees
  /\ ignoredPaths \in SUBSET { Relative(worktree[i]) : i \in 1..Len(worktree) }
  /\ security \in { NoFindings, [NoFindings EXCEPT !.vulnerabilities = << SecretFinding >>] }

NextExposure == ExposureCheck \/ ExposureEnd

SpecExposure == InitExposure /\ [][NextExposure]_vars

(***************************************************************************)
(* A contributor's history of commits that share a subject.                *)
(***************************************************************************)
SubjectPool ==
  { "a1b2c3 fix typo",
    "cd01db2 fix typo",
    "9f8e7a add login form",
    "cd01db2 add login form",
    "src/app.js",
    "README" }

InitSubjects ==
  /\ RunNotStarted
  /\ ScansIdle
  /\ cpc = "start"
  /\ history \in SeqsUpTo(SubjectPool, MaxLines)
  /\ commitData = <<>>
  /\ idx = 1
  /\ currentCommitMsg = ""
  /\ filesTouched = <<>>
  /\ areasTouched = <<>>
  /\ categoryBreakdown = ZeroCounts
  /\ contributor = NoContributor

SpecSubjects == InitSubjects /\ [][NextContrib]_vars

(***************************************************************************)
(* The monthly breakdown on every day of a common year and of a leap year. *)
(***************************************************************************)
Years == { 2023, 2024 }

Days ==
  { [year |-> y, month |-> m, day |-> d] :
      y \in Years, m \in 0..11, d \in 1..31 }

InitMonths ==
  /\ RunNotStarted
  /\ WatchIdle
  /\ ServerIdle
  /\ ContribIdle
  /\ ChurnIdle
  /\ DeadIdle
  /\ ComplianceIdle
  /\ ExposureIdle
  /\ monPc = "loop"
  /\ monI = 5
  /\ today \in { d \in Days : d.day <= DaysIn(d.year, d.month) }
  /\ months = <<>>

NextMonths == MonthTurn \/ MonthsEnd

SpecMonths == InitMonths /\ [][NextMonths]_vars

(***************************************************************************)
(* The viewer over a few requests and two states of the disk.              *)
(***************************************************************************)
\* requests in flight at once
MaxRequests == 2

File(c) == [dir |-> FALSE, content |-> c]

\* the package and a system file, before a report was written
BareDisk ==
  [f \in { "/app/server.js", "/app/package.json", "/etc/passwd", "/app/output" } |->
     CASE f = "/app/server.js" -> File("const http = require('http');")
       [] f = "/app/package.json" -> File("{ \"name\": \"on-bored\" }")
       [] f = "/etc/passwd" -> File("root:x:0:0:root:/root:/bin/sh")
       [] OTHER -> [dir |-> TRUE, content |-> ""]]

\* the same with a report in the output directory
ReportDisk ==
  [f \in DOMAIN BareDisk \cup { "/app/output/index.html", "/app/output/data.json" } |->
     IF f \in DOMAIN BareDisk THEN BareDisk[f]
     ELSE IF f = "/app/output/index.html" THEN File("<!DOCTYPE html><title>report</title>")
     ELSE File("{ \"compliance\": {} }")]

Urls ==
  { "/", "/index.html", "/data.json", "/missing.css", "/sub/../index.html",
    "/../server.js", "/../../etc/passwd", "/." }

InitServer ==
  /\ RunNotStarted
  /\ WatchIdle
  /\ ContribIdle
  /\ ChurnIdle
  /\ DeadIdle
  /\ ComplianceIdle
  /\ ExposureIdle
  /\ MonthsIdle
  /\ disk \in { BareDisk, ReportDisk }
  /\ requests \in [1..MaxRequests -> { [at |-> "sent", url |-> u, filePath |-> ""] : u \in Urls }]
  /\ responses = [r \in 1..MaxRequests |-> <<>>]

NextServer == Handle \/ Answer

SpecServer == InitServer /\ [][NextServer]_vars

(***************************************************************************)
(* on-bored --watch, with and without an AI provider.                      *)
(***************************************************************************)
InitWatch ==
  /\ RunNotStarted
  /\ ContribIdle
  /\ ChurnIdle
  /\ DeadIdle
  /\ ComplianceIdle
  /\ ExposureIdle
  /\ MonthsIdle
  /\ ServerIdle
  /\ alive = TRUE
  /\ endedBy = 0
  /\ targetIsRepo = TRUE
  /\ aiEnabled \in BOOLEAN
  /\ watchRuns = <<>>
  /\ outputFiles = [json |-> 0, html |-> 0]
  /\ logged = {}

NextWatch == InitialRun \/ Tick \/ Written \/ RepositoryGone

SpecWatch == InitWatch /\ [][NextWatch]_vars

(***************************************************************************)
(* Claims about a contributor                                              *)
(***************************************************************************)
Finished == cpc = "done"

\* C6: a contributor whose history gave no line (it is empty, or git could not
\* read it) ends with every category count 0, every radar value 0 and the
\* focus "general"; the derivation completes.
C6_EmptyHistory ==
  (Finished /\ commitData = <<>>) =>
     /\ \A c \in CatSet : /\ contributor.categoryBreakdown[c] = 0
                          /\ contributor.radarData[c] = 0
     /\ contributor.focus = "general"

\* the history has lines to classify and git failed to deliver them
C6_Witness ==
  /\ Finished
  /\ commitData = <<>>
  /\ \E i \in 1..Len(history) : MsgCats(ToLowerCase(history[i])) # {}
  /\ contributor.focus = "general"

C8_RadarSumNearHundred ==
  (Finished /\ SumOver(contributor.categoryBreakdown, CatSet) > 0) =>
     LET s == SumOver(contributor.radarData, CatSet)
     IN  s - 100 <= 7 /\ 100 - s <= 7

\* six categories with one hit each: 17 six times
C8_Witness ==
  /\ Finished
  /\ SumOver(contributor.categoryBreakdown, CatSet) = 6
  /\ SumOver(contributor.radarData, CatSet) = 102

\* what each of the first n lines is, and the categories it is classified into
Classified(n) ==
  [i \in 1..n |->
     LET l == ToLowerCase(commitData[i]) IN
     IF IsCommitLine(commitData[i])
       THEN [commit |-> TRUE, cats |-> MsgCats(l)]
       ELSE [commit |-> FALSE, cats |-> FileCats(l)]]

CommitLinesInto(c, cl) == { i \in DOMAIN cl : cl[i].commit /\ c \in cl[i].cats }

FileLinesInto(c, cl) == { i \in DOMAIN cl : ~cl[i].commit /\ c \in cl[i].cats }

\* C9: over the lines processed so far, and so over all of them at the end, a
\* category's count is the number of commit lines classified into it plus the
\* number of changed-file lines classified into it.
C9_CountsBothSignals ==
  /\ cpc \in {"loop", "derive", "done"} =>
       LET cl == Classified(idx - 1) IN
       \A c \in CatSet :
         categoryBreakdown[c] = Cardinality(CommitLinesInto(c, cl))
                                  + Cardinality(FileLinesInto(c, cl))
  /\ Finished => /\ idx = Len(commitData) + 1
                 /\ contributor.categoryBreakdown = categoryBreakdown

\* a commit whose message counts for two categories, followed by one of its
\* files counting for one of the two again
C9_Witness ==
  /\ Finished
  /\ Len(commitData) >= 2
  /\ IsCommitLine(commitData[1])
  /\ ~IsCommitLine(commitData[2])
  /\ Cardinality(MsgCats(ToLowerCase(commitData[1]))) >= 2
  /\ \E c \in CatSet : /\ 1 \in CommitLinesInto(c, Classified(2))
                       /\ 2 \in FileLinesInto(c, Classified(2))
                       /\ contributor.categoryBreakdown[c] >= 2

\* the extension of each line that names a changed file, "" for the others
LineExts ==
  [i \in 1..Len(commitData) |->
     IF IsCommitLine(commitData[i]) THEN ""
     ELSE ToLowerCase(ExtName(ToLowerCase(commitData[i])))]

TouchedExts(x) == { x[i] : i \in DOMAIN x } \ {""}

TimesTouched(x, e) == Cardinality({ i \in DOMAIN x : x[i] = e })

FirstTouched(x, e) == CHOOSE i \in DOMAIN x : x[i] = e /\ \A j \in 1..(i - 1) : x[j] # e

\* the most-touched extension, the one met first among equals
MostTouched(x) ==
  CHOOSE e \in TouchedExts(x) :
    \A f \in TouchedExts(x) \ {e} :
      \/ TimesTouched(x, f) < TimesTouched(x, e)
      \/ /\ TimesTouched(x, f) = TimesTouched(x, e)
         /\ FirstTouched(x, e) < FirstTouched(x, f)

\* the mapping as the claim words it
ClaimedFocus(x) ==
  IF TouchedExts(x) = {} THEN "general"
  ELSE LET e == MostTouched(x) IN
    IF e \in {".vue", ".tsx", ".jsx", ".svelte", ".css", ".scss"} THEN "frontend"
    ELSE IF e \in {".py", ".go", ".rs", ".java"} THEN "backend"
    ELSE IF e \in {".ts", ".js"}
      THEN (IF {".vue", ".tsx"} \cap TouchedExts(x) # {} THEN "fullstack"
            ELSE "backend")
    ELSE IF e \in {".md", ".mdx", ".txt"} THEN "docs"
    ELSE IF e \in {".yml", ".yaml", ".json"} THEN "config-devops"
    ELSE "general"

\* C10 as stated: .ts or .js on top gives fullstack beside a framework
\* extension and backend otherwise; a config extension gives config-devops.
C10_FocusAsClaimed == Finished => contributor.focus = ClaimedFocus(LineExts)

\* C10: the focus follows the most-touched extension, the first met among
\* equals: a frontend extension gives frontend, a backend language backend, a
\* doc extension docs, .yml .yaml .json the label config/devops, and .ts or .js
\* gives frontend when a .vue or .tsx file was touched too and fullstack when
\* none was; anything else, or no extension at all, gives general.
C10_FocusFromTopExtension ==
  Finished =>
    LET fo == contributor.focus
        x  == LineExts
        fw == {".vue", ".tsx"} \cap TouchedExts(x) # {}
    IN
    IF TouchedExts(x) = {} THEN fo = "general"
    ELSE LET e == MostTouched(x) IN
      /\ e \in {".vue", ".tsx", ".jsx", ".svelte", ".css", ".scss"} => fo = "frontend"
      /\ e \in {".py", ".go", ".rs", ".java"} => fo = "backend"
      /\ (e \in {".ts", ".js"} /\ fw) => fo = "frontend"
      /\ (e \in {".ts", ".js"} /\ ~fw) => fo = "fullstack"
      /\ e \in {".md", ".mdx", ".txt"} => fo = "docs"
      /\ e \in {".yml", ".yaml", ".json"} => fo = "config/devops"
      /\ e \notin {".vue", ".tsx", ".jsx", ".svelte", ".css", ".scss", ".py", ".go",
                   ".rs", ".java", ".ts", ".js", ".md", ".mdx", ".txt", ".yml",
                   ".yaml", ".json"} => fo = "general"

\* .ts met first and touched as often as .vue: the tie goes to .ts, and the
\* .vue file makes the label frontend
C10_Witness ==
  /\ Finished
  /\ LET x == LineExts IN
     /\ ".vue" \in TouchedExts(x)
     /\ MostTouched(x) = ".ts"
     /\ TimesTouched(x, ".vue") = TimesTouched(x, ".ts")
  /\ contributor.focus = "frontend"

\* at least one commit, and every line is classified into frontend alone
FrontendOnly ==
  LET cl == Classified(Len(commitData)) IN
  /\ \E i \in DOMAIN cl : cl[i].commit
  /\ \A i \in DOMAIN cl : cl[i].cats = {"frontend"}

RadarAllFrontend ==
  \A c \in CatSet :
    contributor.radarData[c] = IF c = "frontend" THEN 100 ELSE 0

\* C11 as stated: such a contributor has radar frontend 100, the others 0, and
\* the focus frontend.
C11_FrontendOnlyAsClaimed ==
  (Finished /\ FrontendOnly) => (RadarAllFrontend /\ contributor.focus = "frontend")

\* C11: a contributor with a commit, all of whose lines are classified into
\* frontend alone, has radar frontend 100 and the others 0; the focus is
\* frontend exactly when the most-touched extension is a frontend one, or is
\* .ts or .js beside a touched .vue or .tsx file.
C11_FrontendOnly ==
  (Finished /\ FrontendOnly) =>
     /\ RadarAllFrontend
     /\ LET x == LineExts IN
        contributor.focus = "frontend" <=>
          /\ TouchedExts(x) # {}
          /\ \/ MostTouched(x) \in {".vue", ".tsx", ".jsx", ".svelte", ".css", ".scss"}
             \/ /\ MostTouched(x) \in {".ts", ".js"}
                /\ {".vue", ".tsx"} \cap TouchedExts(x) # {}

\* a frontend message and a frontend-only .js file: the focus is fullstack
C11_Witness ==
  /\ Finished
  /\ FrontendOnly
  /\ RadarAllFrontend
  /\ Len(commitData) >= 2
  /\ TouchedExts(LineExts) = {".js"}
  /\ contributor.focus = "fullstack"

\* the directory segments of a changed-file line: all segments but the last
DirSegments(line) ==
  LET parts == Split(line, "/") IN { parts[k] : k \in 1..(Len(parts) - 1) }

\* the position at which a name entered areasTouched, 0 when it never did
EnteredAt(name) ==
  IF \E i \in 1..Len(areasTouched) : areasTouched[i].key = name
    THEN CHOOSE i \in 1..Len(areasTouched) : areasTouched[i].key = name
    ELSE 0

\* C12 as stated: topAreas holds at most 2 names, by descending touch count
\* and first met first among equals; each is a directory segment of a touched
\* path, never the file's own name, and none is src, app, lib or '.'.
C12_TopAreasAsClaimed ==
  Finished =>
    LET top == contributor.topAreas IN
    /\ Len(top) <= 2
    /\ \A k \in 1..Len(top) :
         /\ top[k] \notin {"src", "app", "lib", "."}
         /\ \E i \in 1..Len(commitData) :
              ~IsCommitLine(commitData[i]) /\ top[k] \in DirSegments(commitData[i])
    /\ \A k \in 1..(Len(top) - 1) :
         \/ Get(areasTouched, top[k]) > Get(areasTouched, top[k + 1])
         \/ /\ Get(areasTouched, top[k]) = Get(areasTouched, top[k + 1])
            /\ EnteredAt(top[k]) < EnteredAt(top[k + 1])

(***************************************************************************)
(* Claims about the churn list                                             *)
(***************************************************************************)
Ranked == churnPc = "done"

Occurrences(p) == Cardinality({ i \in 1..Len(fileChurnRaw) : fileChurnRaw[i] = p })

FirstSeen(p) ==
  CHOOSE i \in 1..Len(fileChurnRaw) :
    fileChurnRaw[i] = p /\ \A j \in 1..(i - 1) : fileChurnRaw[j] # p

\* p is ranked ahead of q: modified more often, or as often and seen first
Ahead(p, q) ==
  \/ Occurrences(p) > Occurrences(q)
  \/ Occurrences(p) = Occurrences(q) /\ FirstSeen(p) < FirstSeen(q)

\* C13: down the churn list the counts never rise, and of two neighbours with
\* the same count the one first seen in the modification history comes first.
C13_ChurnOrder ==
  Ranked =>
    \A k \in 1..(Len(topFiles) - 1) :
      /\ topFiles[k].changes >= topFiles[k + 1].changes
      /\ topFiles[k].changes = topFiles[k + 1].changes =>
           FirstSeen(topFiles[k].fullPath) < FirstSeen(topFiles[k + 1].fullPath)

\* a path modified twice but seen last leads the list, and two paths with one
\* modification each follow in the order of the history
C13_Witness ==
  /\ Ranked
  /\ Len(topFiles) >= 3
  /\ topFiles[1].changes > topFiles[2].changes
  /\ topFiles[2].changes = topFiles[3].changes
  /\ FirstSeen(topFiles[1].fullPath) > FirstSeen(topFiles[3].fullPath)

CountedPaths == { fileChurnRaw[i] : i \in { j \in 1..Len(fileChurnRaw) : Counted(fileChurnRaw[j]) } }

Listed == { topFiles[k].fullPath : k \in 1..Len(topFiles) }

\* C14: an entry's count is the number of lines of the stream that are its
\* path; listed paths end in an allow-listed extension and are listed once;
\* the list is the 15 best-ranked counted paths, or all of them when fewer.
C14_ChurnCounts ==
  Ranked =>
    /\ \A k \in 1..Len(topFiles) :
         /\ topFiles[k].changes = Occurrences(topFiles[k].fullPath)
         /\ \E e \in ChurnExts : EndsWith(topFiles[k].fullPath, e)
         /\ \A l \in 1..Len(topFiles) :
              topFiles[l].fullPath = topFiles[k].fullPath => l = k
    /\ Len(topFiles) <= 15
    /\ Listed \subseteq CountedPaths
    /\ Cardinality(CountedPaths) <= 15 => Listed = CountedPaths
    /\ Cardinality(CountedPaths) > 15 => Len(topFiles) = 15
    /\ \A p \in CountedPaths \ Listed : \A q \in Listed : Ahead(q, p)

\* more than 15 counted paths, one of them modified twice, and a line that is
\* no source file: the list is cut to 15 and led by the path modified twice
C14_Witness ==
  /\ Ranked
  /\ Cardinality(CountedPaths) > 15
  /\ Len(topFiles) = 15
  /\ topFiles[1].changes = 2
  /\ \E i \in 1..Len(fileChurnRaw) :
       fileChurnRaw[i] # "" /\ ~Counted(fileChurnRaw[i])

(***************************************************************************)
(* Claims about the dead-code lists                                        *)
(***************************************************************************)
Scanned == deadPc = "done"

ComponentReported(f) ==
  \E k \in 1..Len(deadCode.unusedComponents) :
    deadCode.unusedComponents[k].path = Relative(f)

FileReported(f) ==
  \E k \in 1..Len(deadCode.unusedFiles) : deadCode.unusedFiles[k].path = Relative(f)

ExportReported(f, x) ==
  \E k \in 1..Len(deadCode.unusedExports) :
    /\ deadCode.unusedExports[k].path = Relative(f)
    /\ deadCode.unusedExports[k].export = x

\* the exports of the i-th listed file, none when it cannot be read
ExportsOf(i) ==
  IF contents[tsFiles[i]].readable THEN contents[tsFiles[i]].exports ELSE <<>>

\* C15 as stated: a candidate that is not skip-listed and whose derived name
\* is absent from the index of its sub-scan is reported.
C15_AbsentIsReported ==
  Scanned =>
    /\ \A i \in 1..Len(componentFiles) :
         LET f == componentFiles[i] IN
         (/\ ~ComponentSkipped(f)
          /\ ~Includes(allUsages, StripExt(f))
          /\ ~Includes(allUsages, KebabName(StripExt(f)))) => ComponentReported(f)
    /\ \A i \in 1..Len(srcFiles) :
         LET f == srcFiles[i] IN
         (~OrphanSkipped(f) /\ ~Includes(allRefs, StripExt(f))) => FileReported(f)
    /\ \A i \in 1..Len(tsFiles) : \A j \in 1..Len(ExportsOf(i)) :
         LET f == tsFiles[i]
             x == ExportsOf(i)[j]
         IN  (/\ ToLowerCase(StripExt(f)) \notin ExportEntryPoints
              /\ ~ExportSkipped(x)
              /\ ~Includes(allImports, x)) => ExportReported(f, x)

ComponentQualifies(i) ==
  LET f == componentFiles[i] IN
  /\ ~ComponentSkipped(f)
  /\ ~Includes(allUsages, StripExt(f))
  /\ ~Includes(allUsages, KebabName(StripExt(f)))

FileQualifies(i) ==
  ~OrphanSkipped(srcFiles[i]) /\ ~Includes(allRefs, StripExt(srcFiles[i]))

ExportQualifies(i, j) ==
  /\ i <= 30
  /\ j <= 5
  /\ ToLowerCase(StripExt(tsFiles[i])) \notin ExportEntryPoints
  /\ ~ExportSkipped(ExportsOf(i)[j])
  /\ ~Includes(allImports, ExportsOf(i)[j])
  /\ ~Includes(allImports, StripExt(tsFiles[i]))

\* the positions 1..n in order
Upto(n) == [i \in 1..n |-> i]

\* file and export positions, file by file
ExportPairs ==
  SelectSeq([k \in 1..(6 * Len(tsFiles)) |-> <<((k - 1) \div 6) + 1, ((k - 1) % 6) + 1>>],
            LAMBDA p : p[2] <= Len(ExportsOf(p[1])))

\* C15: in listing order, a component that is not skip-listed and whose name
\* and kebab-case name are both absent from the index is reported while fewer
\* than 25 such precede it; likewise a source file whose name is absent, up
\* to 20; and an export that is among the first 5 of one of the first 30
\* listed files, a readable one, when its name and the name of its file are
\* both absent from the index, up to 20.
C15_AbsentIsReportedUpToCap ==
  Scanned =>
    LET cq == SelectSeq(Upto(Len(componentFiles)), ComponentQualifies)
        fq == SelectSeq(Upto(Len(srcFiles)), FileQualifies)
        xq == SelectSeq(ExportPairs, LAMBDA p : ExportQualifies(p[1], p[2]))
    IN
    /\ \A k \in 1..Len(cq) : ComponentReported(componentFiles[cq[k]]) <=> k <= 25
    /\ \A k \in 1..Len(fq) : FileReported(srcFiles[fq[k]]) <=> k <= 20
    /\ \A k \in 1..Len(xq) :
         ExportReported(tsFiles[xq[k][1]], ExportsOf(xq[k][1])[xq[k][2]]) <=> k <= 20

\* 26 unused components of which 25 are reported, and an export that is not
\* imported by name but whose file is, and so is not reported
C15_Witness ==
  /\ Scanned
  /\ Len(componentFiles) = 26
  /\ Len(deadCode.unusedComponents) = 25
  /\ ~ComponentReported(componentFiles[26])
  /\ \E i \in 1..Len(tsFiles) : \E j \in 1..Len(ExportsOf(i)) :
       /\ ~ExportSkipped(ExportsOf(i)[j])
       /\ ~Includes(allImports, ExportsOf(i)[j])
       /\ Includes(allImports, StripExt(tsFiles[i]))
       /\ ~ExportReported(tsFiles[i], ExportsOf(i)[j])
  /\ Len(deadCode.unusedFiles) >= 1

\* C16: no reported component has its name or its kebab-case name anywhere in
\* the usage index, no reported export its name anywhere in the import index,
\* and no reported file its name anywhere in the reference index.
C16_ReportedIsAbsent ==
  Scanned =>
    /\ \A k \in 1..Len(deadCode.unusedComponents) :
         LET n == deadCode.unusedComponents[k].component IN
         ~Includes(allUsages, n) /\ ~Includes(allUsages, KebabName(n))
    /\ \A k \in 1..Len(deadCode.unusedExports) :
         ~Includes(allImports, deadCode.unusedExports[k].export)
    /\ \A k \in 1..Len(deadCode.unusedFiles) :
         ~Includes(allRefs, StripExt(deadCode.unusedFiles[k].file))

\* UserCard occurs in the index only inside UserCardSkeleton and is not
\* reported, NavBar does not occur and is; format occurs only inside
\* reformatter and is not reported, constants is
C16_Witness ==
  /\ Scanned
  /\ allUsages = "import { UserCardSkeleton } from './skeletons'"
  /\ \E i \in 1..Len(componentFiles) :
       StripExt(componentFiles[i]) = "UserCard" /\ ~ComponentReported(componentFiles[i])
  /\ \E k \in 1..Len(deadCode.unusedComponents) :
       deadCode.unusedComponents[k].component = "NavBar"
  /\ allRefs = "const r = require('./reformatter')"
  /\ \E i \in 1..Len(srcFiles) :
       StripExt(srcFiles[i]) = "format" /\ ~FileReported(srcFiles[i])
  /\ Len(deadCode.unusedFiles) >= 1
  /\ Len(deadCode.unusedExports) >= 1

\* the path has a directory named pages
UnderPages(p) == "pages" \in DirSegments(p)

\* C17: nothing on a sub-scan's skip-list is in that sub-scan's list: no
\* reported component is an index file or lies under a pages or layouts
\* directory, no reported export comes from an entry-point module, is shorter
\* than 4 or starts with use, and no reported file is an entry point or
\* starts with an underscore.
C17_SkipListedNeverReported ==
  Scanned =>
    /\ \A k \in 1..Len(deadCode.unusedComponents) :
         LET e == deadCode.unusedComponents[k] IN
         /\ ToLowerCase(e.component) # "index"
         /\ ~UnderPages(e.path)
         /\ "layouts" \notin DirSegments(e.path)
    /\ \A k \in 1..Len(deadCode.unusedExports) :
         LET e == deadCode.unusedExports[k] IN
         /\ ToLowerCase(StripExt(e.file)) \notin ExportEntryPoints
         /\ Len(e.export) >= 4
         /\ ~StartsWith(e.export, "use")
    /\ \A k \in 1..Len(deadCode.unusedFiles) :
         LET e == deadCode.unusedFiles[k] IN
         /\ ToLowerCase(StripExt(e.file)) \notin OrphanEntryPoints
         /\ ~StartsWith(e.file, "_")

Shown == compPc = "shown"

\* the categories of the scan's result whose found flag is true
FoundKeys == { key \in KeySet : compliance[key].found }

\* C19: the score shown is the integer nearest to 100 * k / 7, k being the
\* number of categories found: 0 for none, 14 for one, 100 for all seven.
C19_ScoreIsRoundedShare ==
  Shown =>
    LET k == Cardinality(FoundKeys) IN
    /\ passedChecks = k
    /\ complianceScore \in 0..100
    /\ 2 * (7 * complianceScore - 100 * k) <= 7
    /\ 2 * (100 * k - 7 * complianceScore) <= 7
    /\ k = 0 => complianceScore = 0
    /\ k = 1 => complianceScore = 14
    /\ k = 7 => complianceScore = 100

\* the report of a tree with evidence for one category alone shows 14
C19_Witness ==
  /\ Shown
  /\ FoundKeys = { "reportingMechanism" }
  /\ complianceScore = 14

\* the score the report would show for comp
ScoreOf(comp) == ComplianceScore(PassedChecks(comp), Len(ComplianceKeys))

\* C20: in each turn of the loop over the evidence files, an if that
\* attributes the file to a category not found before raises the number of
\* categories found by exactly 1 and the score to that of the new number, an
\* if that attributes it to a category found already changes neither, and no
\* step of the scan turns a found flag from true to false.
C20_Monotonic ==
  [][ /\ \A key \in KeySet : compliance[key].found => compliance'[key].found
      /\ ScoreOf(compliance') >= ScoreOf(compliance)
      /\ ComplianceFile =>
           LET file == complianceFiles[compIdx]
               at == [j \in 0..Len(ComplianceKeys) |-> AttributeUpTo(compliance, file, j)]
           IN
           /\ compliance' = at[Len(ComplianceKeys)]
           /\ \A j \in 1..Len(ComplianceKeys) :
                LET key == ComplianceKeys[j]
                    before == at[j - 1]
                    after == at[j]
                IN
                IF Attributed(file, key) /\ ~before[key].found
                THEN /\ PassedChecks(after) = PassedChecks(before) + 1
                     /\ 2 * (7 * ScoreOf(after) - 100 * (PassedChecks(before) + 1)) <= 7
                     /\ 2 * (100 * (PassedChecks(before) + 1) - 7 * ScoreOf(after)) <= 7
                     /\ ScoreOf(after) > ScoreOf(before)
                ELSE /\ PassedChecks(after) = PassedChecks(before)
                     /\ ScoreOf(after) = ScoreOf(before)
    ]_vars

\* a second file has been attributed to a category the first was attributed
\* to, after which a file of another category was attributed
C20_Witness ==
  /\ compPc = "files"
  /\ compIdx = 4
  /\ Len(compliance["ageVerification"].files) = 2
  /\ FoundKeys = { "ageVerification", "reportingMechanism" }

ComplianceDone == compPc \in { "done", "shown" }

\* C21: when the compliance scan is over every evidence list has at most 8
\* entries and no path twice, and during the scan a category is found once a
\* file handled so far was attributed to it.
C21_EvidenceCappedAndUnique ==
  /\ ComplianceDone =>
       \A key \in KeySet :
         LET fs == compliance[key].files IN
         /\ Len(fs) <= 8
         /\ \A i, j \in 1..Len(fs) : fs[i] = fs[j] => i = j
  /\ compPc = "files" =>
       \A i \in 1..(compIdx - 1) : \A key \in KeySet :
         Attributed(complianceFiles[i], key) => compliance[key].found

\* nine distinct files and a repeat of the first were attributed to one
\* category, whose list holds the first eight
C21_Witness ==
  /\ ComplianceDone
  /\ Len(complianceFiles) = 10
  /\ complianceFiles[10] = complianceFiles[1]
  /\ Len(compliance["ageVerification"].files) = 8
  /\ compliance["ageVerification"].found

\* the stems of every category
AllStems == UNION { Keywords(key) : key \in KeySet }

\* the stems found in a path below the analysed tree
StemsIn(rel) == { w \in AllStems : Includes(ToLowerCase(rel), w) }

\* the matched files, as paths below the analysed tree
MatchedPaths ==
  { RelativeTo(repoPath, complianceFiles[i]) : i \in 1..Len(complianceFiles) }

\* C22: when at least one file is matched and the matched files have the stems
\* stripe and payout and no other, the report shows payment compliance found,
\* the six other categories not found, and a score of 14.
C22_PaymentOnly ==
  ( /\ Shown
    /\ complianceFiles # <<>>
    /\ \A rel \in MatchedPaths :
         StemsIn(rel) # {} /\ StemsIn(rel) \subseteq { "stripe", "payout" } )
  => /\ FoundKeys = { "paymentCompliance" }
     /\ complianceScore = 14

\* C26: the tree analysed at a second place gives the found flags and the
\* evidence lists it gave at the first, when the pipeline listed the matched
\* files both times.
C26_SameAtEveryLocation ==
  (ComplianceDone /\ checkout = 2 /\ ~threw) =>
    \A key \in KeySet :
      /\ compliance[key].found = lastCompliance[key].found
      /\ compliance[key].files = lastCompliance[key].files

\* C30: in every state of the scan and in the report, a category is found
\* exactly when its evidence list is not empty.
C30_FoundIffEvidence ==
  \A key \in KeySet : compliance[key].found <=> compliance[key].files # <<>>

\* the report is out with a category found on eight of nine files and a
\* category not found
C30_Witness ==
  /\ Shown
  /\ compliance["ageVerification"].found
  /\ Len(compliance["ageVerification"].files) = 8
  /\ Len(complianceFiles) >= 9
  /\ ~compliance["recordKeeping"].found
  /\ compliance["recordKeeping"].files = <<>>

(***************************************************************************)
(* Claims about exposed sensitive files                                    *)
(***************************************************************************)
ExposureDone == expPc = "done"

\* the files of that name in the tree, outside node_modules
Present(file) ==
  { worktree[i] : i \in { j \in 1..Len(worktree) :
                            /\ BaseName(worktree[j]) = file
                            /\ ~Includes(worktree[j], "node_modules") } }

\* a warning names that sensitive file
Warned(file) ==
  \E k \in 1..Len(security.warnings) :
    /\ security.warnings[k].type = "exposure"
    /\ security.warnings[k].name = file \o " may be committed to repo"

\* C23: a sensitive file name has an exposure entry exactly when a file of
\* that name is in the tree and is not ignored, and an exposure is a warning
\* and never a vulnerability.  Stated for the analyses in which no ignored
\* file has a warning, that is, in which git answered every question; an
\* ignored file with a warning breaks the claim by itself.
C23_ExposureExactly ==
  (ExposureDone /\ \A k \in 1..Len(security.warnings) :
                     security.warnings[k].file \notin ignoredPaths)
  => /\ \A n \in 1..Len(sensitiveFiles) :
          Warned(sensitiveFiles[n]) <=>
            \E f \in Present(sensitiveFiles[n]) : Relative(f) \notin ignoredPaths
     /\ \A k \in 1..Len(security.vulnerabilities) :
          security.vulnerabilities[k].type # "exposure"

(***************************************************************************)
(* Claims about commit lines                                               *)
(***************************************************************************)
\* the subject of a commit line: what follows the abbreviated hash and the
\* space after it
Subject(line) ==
  LET k == CHOOSE n \in 1..Len(line) : IsSpace(CharAt(line, n)) /\
                                       \A i \in 1..(n - 1) : ~IsSpace(CharAt(line, i))
  IN  SubSeq(line, k + 1, Len(line))

\* the lines handled so far are commit lines of one subject
SameSubjectSoFar ==
  /\ cpc \in { "loop", "derive", "done" }
  /\ idx > 1
  /\ \A i \in 1..(idx - 1) :
       /\ IsCommitLine(commitData[i])
       /\ Subject(commitData[i]) = Subject(commitData[1])

\* C27: commit lines of one subject increment the same categories whatever
\* their hashes: after such lines alone, every category has been incremented
\* by all of them or by none.
C27_SubjectAlone ==
  SameSubjectSoFar =>
    \A c \in CatSet : categoryBreakdown[c] \in { 0, idx - 1 }

(***************************************************************************)
(* Claims about the monthly breakdown                                      *)
(***************************************************************************)
\* the first day, as git is given it, of the month that lies n months after
\* January of year 0
FirstOf(n) == YearString(n \div 12) \o "-" \o PadStart2((n % 12) + 1) \o "-01"

\* the six buckets are the six months ending with that of today, oldest first
SixMonthsUpToNow ==
  LET now == today.year * 12 + today.month IN
  /\ Len(months) = 6
  /\ \A k \in 1..6 :
       LET n == now - (6 - k) IN
       /\ months[k].year = n \div 12
       /\ months[k].label = ShortMonths[(n % 12) + 1]
       /\ months[k].after = FirstOf(n)
       /\ months[k].before = FirstOf(n + 1)

\* C28: on every day the breakdown has exactly 6 buckets, the 6 consecutive
\* months ending with the current one in order, each with the window from
\* the 1st of its month to the 1st of the next.
C28_SixConsecutiveMonths == monPc = "done" => SixMonthsUpToNow

(***************************************************************************)
(* Claims about the viewer                                                 *)
(***************************************************************************)
\* the files of the disk that are not inside the output directory
OutsideOutput ==
  { f \in DOMAIN disk : ~disk[f].dir /\ ~StartsWith(f, "/app/output/") }

\* C29: every request is answered once, with status 200, 404 or 500, and no
\* answer carries the content of a file that is outside the output directory.
C29_ServesOutputOnly ==
  \A r \in DOMAIN requests :
    /\ Len(responses[r]) <= 1
    /\ requests[r].at = "answered" => Len(responses[r]) = 1
    /\ \A k \in 1..Len(responses[r]) :
         /\ responses[r][k].status \in { 200, 404, 500 }
         /\ responses[r][k].status = 200 =>
              \A f \in OutsideOutput : responses[r][k].body # disk[f].content

(***************************************************************************)
(* Claims about watch mode                                                 *)
(***************************************************************************)
\* every run started so far has written its output
AllWritten ==
  /\ watchRuns # <<>>
  /\ \A r \in 1..Len(watchRuns) : watchRuns[r].at = "written"

C25_RefreshFailureSurvived ==
  \A r \in 1..Len(watchRuns) :
    (watchRuns[r].periodic /\ watchRuns[r].at \in { "failed", "exited" })
      => /\ r \in logged
         /\ endedBy # r

====
